---- MODULE Spec2Model ----
(***************************************************************************)
(* Claims dashboard analytics (src/lib/types.ts): exposure validation,     *)
(* product classification, claims-over-time aggregation and the cohort     *)
(* survival engine, as called by the dashboard components.                 *)
(*                                                                         *)
(* Timestamps are local calendar fields [y, m, d, h]; h counts half days,  *)
(* so one day is 2 clock units.  A missing or empty field is "" (strings)  *)
(* or Absent (timestamps): the code tests all of them for truthiness only. *)
(* Period keys are the zero-padded strings read as numbers ("2024-01" is   *)
(* 202401), which order exactly as the strings do for four-digit years.    *)
(* Rates are exact fractions [num, den].                                   *)
(***************************************************************************)
EXTENDS Integers, Sequences, FiniteSets, TLC

\* ------------------------------------------------------------------ bounds
MaxRegs == 2

MaxVols == 2

MaxOverTimeRegs == 2

\* The number of timestamps calculateExposureDays is called on.
MaxInstants == 6

\* The number of names extractProductType is called on in one run.
MaxNames == 2

\* The number of registrations of the dashboard.
MaxDashRegs == 2

\* The number of days after the first that each window of dates covers.
MaxDayStep == 6

\* The number of registrations fetched on top of the stored ones.
MaxTopExtras == 2

\* The largest count of a form in the cache.
MaxCount == 2

\* The number of different record ids the API delivers.
MaxIds == 2

\* The most new records one refresh collects.
MaxNew == 3

\* The number of browser sessions with the dashboard open.
MaxSessions == 2

\* ------------------------------------------------------------ calendar
Absent == [y |-> 0, m |-> 0, d |-> 0, h |-> 0]

Date(y, m, d, h) == [y |-> y, m |-> m, d |-> d, h |-> h]

IsLeapYear(y) == (y % 4 = 0 /\ y % 100 # 0) \/ (y % 400 = 0)

DaysInMonth(y, m) ==
    IF m = 2 THEN (IF IsLeapYear(y) THEN 29 ELSE 28)
    ELSE IF m \in {4, 6, 9, 11} THEN 30 ELSE 31

\* Days since 1970-01-01 of a calendar date.
DaysFromCivil(y, m, d) ==
    LET yy  == IF m <= 2 THEN y - 1 ELSE y
        era == yy \div 400
        yoe == yy - era * 400
        mp  == (m + 9) % 12
        doy == (153 * mp + 2) \div 5 + d - 1
        doe == yoe * 365 + yoe \div 4 - yoe \div 100 + doy
    IN  era * 146097 + doe - 719468

\* Date.getTime(), in half days.
getTime(t) == 2 * DaysFromCivil(t.y, t.m, t.d) + t.h

\* new Date(year, monthIndex, 1) with monthIndex possibly outside 0..11.
FirstOfMonth(y, monthIndex) ==
    Date(y + (monthIndex \div 12), (monthIndex % 12) + 1, 1, 0)

\* Date.setMonth(monthIndex): the day of the month is kept and a day past
\* the end of the target month runs over into the following month.
setMonth(t, monthIndex) ==
    LET first == FirstOfMonth(t.y, monthIndex)
        dim   == DaysInMonth(first.y, first.m)
    IN  IF t.d <= dim
        THEN Date(first.y, first.m, t.d, t.h)
        ELSE LET nxt == FirstOfMonth(first.y, first.m)
             IN  Date(nxt.y, nxt.m, t.d - dim, t.h)

\* new Date("YYYY-MM-01"): a date-only string is UTC midnight; its local
\* calendar day is the 1st at or ahead of UTC and the last day of the
\* previous month behind UTC.
TimeZones == {"utcOrAhead", "behindUtc"}

ParseMonthStart(key, tz) ==
    LET y == key \div 100
        m == key % 100
    IN  IF tz = "behindUtc"
        THEN LET p == FirstOfMonth(y, m - 2)
             IN  Date(p.y, p.m, DaysInMonth(p.y, p.m), 1)
        ELSE Date(y, m, 1, 0)

MonthNames ==
    <<"Jan", "Feb", "Mar", "Apr", "May", "Jun",
      "Jul", "Aug", "Sep", "Oct", "Nov", "Dec">>

\* getPeriodKey(date, "monthly"): `${year}-${month padded}`.
getPeriodKey(t) == t.y * 100 + t.m

\* getPeriodLabel(periodKey, "monthly"): "Jan 2024".
getPeriodLabel(key) == <<MonthNames[key % 100], key \div 100>>

\* ------------------------------------------------------------ exposure
Max(a, b) == IF a >= b THEN a ELSE b

\* Math.ceil(a / b) for b > 0.
CeilDiv(a, b) == -((-a) \div b)

calculateExposureDaysFloor(purchaseDate, claimDate) ==
    Max(0, (getTime(claimDate) - getTime(purchaseDate)) \div 2)

calculateExposureDays(purchaseDate, claimDate) ==
    LET diffTime == getTime(claimDate) - getTime(purchaseDate)
        diffDays == CeilDiv(diffTime, 2)
    IN  Max(0, diffDays)

WarrantyMinDays == 0

WarrantyMaxDays == 365

ReturnMinDays == 0

ReturnMaxDays == 31

EXPOSURE_LIMITS(claimType) ==
    IF claimType = "warranty"
    THEN [min |-> WarrantyMinDays, max |-> WarrantyMaxDays]
    ELSE [min |-> ReturnMinDays, max |-> ReturnMaxDays]

isValidExposureStrict(exposureDays, claimType) ==
    /\ exposureDays >= EXPOSURE_LIMITS(claimType).min
    /\ exposureDays < EXPOSURE_LIMITS(claimType).max

isValidExposure(exposureDays, claimType) ==
    LET limits == EXPOSURE_LIMITS(claimType)
    IN  exposureDays >= limits.min /\ exposureDays <= limits.max

ClaimTypes == {"warranty", "return"}

\* ---------------------------------------------- product classification
\* A product name is a string; Chars gives its spelling, on which the
\* regular expressions of extractProductType are evaluated.
ProductNames ==
    {"Dental Pod White", "Dental Pod Go White", "Dental Pod Pro White", "Zima UV Case", "Widget X"}

\* Further names on which extractProductType is called: lower case, two
\* spaces between the words, the Zima variants, and names that fall under
\* two rules.
MoreProductNames ==
    {"dental pod go mint", "Dental Pod  Go White", "Zima Go Silver", "Zima Case Air",
     "Dental Pod Zima Go", "Dental Pod Pro Dental Pod Go", "Zima Dental"}

Chars(name) ==
    IF name = "DP-1"
    THEN <<"D", "P", "-", "1">>
    ELSE     IF name = "DP-2"
    THEN <<"D", "P", "-", "2">>
    ELSE     IF name = "S1"
    THEN <<"S", "1">>
    ELSE     IF name = "S2"
    THEN <<"S", "2">>
    ELSE     IF name = "Leak"
    THEN <<"L", "e", "a", "k">>
    ELSE     IF name = "Noise"
    THEN <<"N", "o", "i", "s", "e">>
    ELSE     IF name = "Lid"
    THEN <<"L", "i", "d">>
    ELSE     IF name = "Shop App"
    THEN <<"S", "h", "o", "p", " ", "A", "p", "p">>
    ELSE     IF name = "Amazon"
    THEN <<"A", "m", "a", "z", "o", "n">>
    ELSE IF name = "dental pod go mint"
    THEN <<"d", "e", "n", "t", "a", "l", " ", "p", "o", "d", " ", "g", "o", " ", "m", "i", "n", "t">>
    ELSE     IF name = "Dental Pod  Go White"
    THEN <<"D", "e", "n", "t", "a", "l", " ", "P", "o", "d", " ", " ", "G", "o", " ", "W", "h", "i", "t", "e">>
    ELSE     IF name = "Zima Go Silver"
    THEN <<"Z", "i", "m", "a", " ", "G", "o", " ", "S", "i", "l", "v", "e", "r">>
    ELSE     IF name = "Zima Case Air"
    THEN <<"Z", "i", "m", "a", " ", "C", "a", "s", "e", " ", "A", "i", "r">>
    ELSE     IF name = "Dental Pod Zima Go"
    THEN <<"D", "e", "n", "t", "a", "l", " ", "P", "o", "d", " ", "Z", "i", "m", "a", " ", "G", "o">>
    ELSE     IF name = "Dental Pod Pro Dental Pod Go"
    THEN <<"D", "e", "n", "t", "a", "l", " ", "P", "o", "d", " ", "P", "r", "o", " ", "D", "e", "n", "t", "a", "l", " ", "P", "o", "d", " ", "G", "o">>
    ELSE     IF name = "Zima Dental"
    THEN <<"Z", "i", "m", "a", " ", "D", "e", "n", "t", "a", "l">>
    ELSE IF name = "Dental Pod White"
    THEN <<"D", "e", "n", "t", "a", "l", " ", "P", "o", "d", " ", "W", "h", "i", "t", "e">>
    ELSE IF name = "Dental Pod Go White"
    THEN <<"D", "e", "n", "t", "a", "l", " ", "P", "o", "d", " ", "G", "o", " ", "W", "h", "i", "t", "e">>
    ELSE IF name = "Dental Pod Pro White"
    THEN <<"D", "e", "n", "t", "a", "l", " ", "P", "o", "d", " ", "P", "r", "o", " ", "W", "h", "i", "t", "e">>
    ELSE IF name = "Zima UV Case"
    THEN <<"Z", "i", "m", "a", " ", "U", "V", " ", "C", "a", "s", "e">>
    ELSE IF name = "Widget X"
    THEN <<"W", "i", "d", "g", "e", "t", " ", "X">>
    ELSE <<>>

LowerTable ==
    [c \in {"A", "B", "C", "D", "E", "F", "G", "H", "I", "J", "K", "L", "M", "N", "O", "P", "Q", "R", "S", "T", "U", "V", "W", "X", "Y", "Z"} |->
        CASE c = "A" -> "a"
          [] c = "B" -> "b"
          [] c = "C" -> "c"
          [] c = "D" -> "d"
          [] c = "E" -> "e"
          [] c = "F" -> "f"
          [] c = "G" -> "g"
          [] c = "H" -> "h"
          [] c = "I" -> "i"
          [] c = "J" -> "j"
          [] c = "K" -> "k"
          [] c = "L" -> "l"
          [] c = "M" -> "m"
          [] c = "N" -> "n"
          [] c = "O" -> "o"
          [] c = "P" -> "p"
          [] c = "Q" -> "q"
          [] c = "R" -> "r"
          [] c = "S" -> "s"
          [] c = "T" -> "t"
          [] c = "U" -> "u"
          [] c = "V" -> "v"
          [] c = "W" -> "w"
          [] c = "X" -> "x"
          [] c = "Y" -> "y"
          [] c = "Z" -> "z"]

\* The /i flag: characters are compared after case folding.
Lower(c) == IF c \in DOMAIN LowerTable THEN LowerTable[c] ELSE c

\* \s of the regular expressions.
IsSpace(c) == c \in {" ", "\t"}

PatDentalPodGo == <<"D", "e", "n", "t", "a", "l", " ", "P", "o", "d", " ", "G", "o">>

PatDentalPodPro == <<"D", "e", "n", "t", "a", "l", " ", "P", "o", "d", " ", "P", "r", "o">>

PatDentalPod == <<"D", "e", "n", "t", "a", "l", " ", "P", "o", "d">>

PatZima == <<"Z", "i", "m", "a", " ">>

PatGo == <<"G", "o">>

PatPro == <<"P", "r", "o">>

PatUVCase == <<"U", "V", " ", "C", "a", "s", "e">>

PatCaseAir == <<"C", "a", "s", "e", " ", "A", "i", "r">>

\* The pattern matches the text at position i (1-based).
MatchAt(s, i, pat) ==
    /\ i >= 1
    /\ i + Len(pat) - 1 <= Len(s)
    /\ \A j \in 1..Len(pat) : Lower(s[i + j - 1]) = Lower(pat[j])

\* RegExp.test for a literal pattern without anchors.
Contains(s, pat) == \E i \in 1..Len(s) : MatchAt(s, i, pat)

\* \s+(Go|Pro) matches at position p.
GoOrProFollows(s, p) ==
    \E n \in 1..Len(s) :
        /\ p + n - 1 <= Len(s)
        /\ \A j \in p..(p + n - 1) : IsSpace(s[j])
        /\ (MatchAt(s, p + n, PatGo) \/ MatchAt(s, p + n, PatPro))

\* /Dental Pod(?!\s+(Go|Pro))/i
MatchesPlainDentalPod(s) ==
    \E i \in 1..Len(s) :
        MatchAt(s, i, PatDentalPod) /\ ~GoOrProFollows(s, i + Len(PatDentalPod))

\* /Zima (Go|UV Case|Case Air)/i
MatchesZima(s) ==
    \E i \in 1..Len(s) :
        /\ MatchAt(s, i, PatZima)
        /\ \/ MatchAt(s, i + Len(PatZima), PatGo)
           \/ MatchAt(s, i + Len(PatZima), PatUVCase)
           \/ MatchAt(s, i + Len(PatZima), PatCaseAir)

ZimaType == "Zima Go/Zima UV Case/Zima Case Air"

extractProductType(productName) ==
    IF productName = "" THEN "Other"
    ELSE LET s == Chars(productName)
         IN  IF Contains(s, PatDentalPodGo) THEN "Dental Pod Go"
             ELSE IF Contains(s, PatDentalPodPro) THEN "Dental Pod Pro"
             ELSE IF MatchesPlainDentalPod(s) THEN "Dental Pod"
             ELSE IF MatchesZima(s) THEN ZimaType
             ELSE "Other"

\* extractProductType on the names of the model, evaluated once.
productTypeOf[productName \in ProductNames \cup {""}] ==
    extractProductType(productName)

trackedProducts ==
    <<"Dental Pod", "Dental Pod Go", "Dental Pod Pro", ZimaType>>


\* ------------------------------------------------------ cohort survival
NoRegistration ==
    [productName |-> "", productSku |-> "", serialNumbers |-> <<>>,
     shopifyOrderCreatedAt |-> Absent, createdAt |-> Absent,
     reason |-> "", subReason |-> "", channel |-> ""]

\* Array.prototype.includes
Includes(arr, x) == \E i \in 1..Len(arr) : arr[i] = x

validChannels ==
    <<"Shop App", "Zima Dental Website", "Zima Dental Website or Shop App">>

HasBothTimestamps(reg) ==
    ~(reg.shopifyOrderCreatedAt = Absent \/ reg.createdAt = Absent)

PassesExposure(reg, claimType) ==
    isValidExposure(
        calculateExposureDays(reg.shopifyOrderCreatedAt, reg.createdAt), claimType)

PassesChannelAlways(reg, claimType) ==
    ~(reg.channel = "" \/ ~Includes(validChannels, reg.channel))

PassesChannel(reg, claimType) ==
    IF claimType = "warranty"
    THEN ~(reg.channel = "" \/ ~Includes(validChannels, reg.channel))
    ELSE TRUE

PassesProductAnyUnderAll(reg, productFilter) ==
    LET productType == extractProductType(reg.productName)
    IN  IF productFilter = "All Products"
        THEN TRUE
        ELSE productType = productFilter

PassesProduct(reg, productFilter) ==
    LET productType == productTypeOf[reg.productName]
    IN  IF productFilter = "All Products"
        THEN Includes(trackedProducts, productType)
        ELSE productType = productFilter

\* The predicate of validRegistrations = registrations.filter(...).
IsValidRegistration(reg, productFilter, claimType) ==
    /\ HasBothTimestamps(reg)
    /\ PassesExposure(reg, claimType)
    /\ PassesChannel(reg, claimType)
    /\ PassesProduct(reg, productFilter)

calculateMonthsBetweenNoYear(startDate, endDate) ==
    endDate.m - startDate.m

calculateMonthsBetween(startDate, endDate) ==
    LET yearDiff  == endDate.y - startDate.y
        monthDiff == endDate.m - startDate.m
    IN  yearDiff * 12 + monthDiff

WarrantyMaxMonths == 12

ReturnMaxMonths == 1

maxMonthsOf(claimType) ==
    IF claimType = "warranty" THEN WarrantyMaxMonths ELSE ReturnMaxMonths

IncrementedOffsetsOnlyOwn(monthsSince, maxMonths) ==
    {m \in monthsSince..maxMonths : m = monthsSince}

\* for (let m = monthsSince; m <= maxMonths; m++)
IncrementedOffsets(monthsSince, maxMonths) == monthsSince..maxMonths

EmptyRecord == [k \in {} |-> 0]

\* One iteration of the loop over validRegistrations.
AddClaim(cohortClaims, reg, startMonth, endMonth, claimType) ==
    LET cohortMonth == getPeriodKey(reg.shopifyOrderCreatedAt)
    IN  IF cohortMonth < startMonth \/ cohortMonth > endMonth
        THEN cohortClaims
        ELSE LET monthsSince ==
                     calculateMonthsBetween(reg.shopifyOrderCreatedAt, reg.createdAt)
                 old  == IF cohortMonth \in DOMAIN cohortClaims
                         THEN cohortClaims[cohortMonth] ELSE EmptyRecord
                 offs == IncrementedOffsets(monthsSince, maxMonthsOf(claimType))
                 new  == [m \in (DOMAIN old) \cup offs |->
                             (IF m \in DOMAIN old THEN old[m] ELSE 0)
                             + (IF m \in offs THEN 1 ELSE 0)]
             IN  [c \in (DOMAIN cohortClaims) \cup {cohortMonth} |->
                     IF c = cohortMonth THEN new ELSE cohortClaims[c]]

RECURSIVE GroupClaims(_, _, _, _, _, _, _)
GroupClaims(regs, i, cohortClaims, productFilter, startMonth, endMonth, claimType) ==
    IF i > Len(regs) THEN cohortClaims
    ELSE GroupClaims(regs, i + 1,
            IF IsValidRegistration(regs[i], productFilter, claimType)
            THEN AddClaim(cohortClaims, regs[i], startMonth, endMonth, claimType)
            ELSE cohortClaims,
            productFilter, startMonth, endMonth, claimType)

\* volumeMap.set(`${pv.yearMonth}|${pv.product}`, pv.purchaseCount)
RECURSIVE BuildVolumeMap(_, _, _)
BuildVolumeMap(purchaseVolumes, i, volumeMap) ==
    IF i > Len(purchaseVolumes) THEN volumeMap
    ELSE LET pv  == purchaseVolumes[i]
             key == <<pv.yearMonth, pv.product>>
         IN  BuildVolumeMap(purchaseVolumes, i + 1,
                [k \in (DOMAIN volumeMap) \cup {key} |->
                    IF k = key THEN pv.purchaseCount ELSE volumeMap[k]])

\* volumeMap.get(volumeKey) || 0
GetVolume(volumeMap, volumeKey) ==
    IF volumeKey \in DOMAIN volumeMap THEN volumeMap[volumeKey] ELSE 0

RECURSIVE SumTrackedVolumes(_, _, _)
SumTrackedVolumes(volumeMap, cohortMonth, i) ==
    IF i > Len(trackedProducts) THEN 0
    ELSE GetVolume(volumeMap, <<cohortMonth, trackedProducts[i]>>)
         + SumTrackedVolumes(volumeMap, cohortMonth, i + 1)

CohortPurchaseVolumeAllColumn(volumeMap, cohortMonth, productFilter) ==
    GetVolume(volumeMap, <<cohortMonth, productFilter>>)

CohortPurchaseVolume(volumeMap, cohortMonth, productFilter) ==
    IF productFilter = "All Products"
    THEN SumTrackedVolumes(volumeMap, cohortMonth, 1)
    ELSE GetVolume(volumeMap, <<cohortMonth, productFilter>>)

\* new Date(now.getFullYear(), now.getMonth() - 1, 1), as a monthly key.
LastCompleteMonthKey(now) == getPeriodKey(FirstOfMonth(now.y, (now.m - 1) - 1))

\* The month a data point stands for, as the code computes it.
DataPointMonthKey(cohortMonth, monthsSince, tz) ==
    LET cohortDate    == ParseMonthStart(cohortMonth, tz)
        dataPointDate == setMonth(cohortDate, (cohortDate.m - 1) + monthsSince)
    IN  getPeriodKey(dataPointDate)

ClaimRateNoPercent(claimCount, purchaseVolume) ==
    IF purchaseVolume > 0
    THEN [num |-> claimCount, den |-> purchaseVolume]
    ELSE [num |-> 0, den |-> 1]

\* purchaseVolume > 0 ? (claimCount / purchaseVolume) * 100 : 0
ClaimRate(claimCount, purchaseVolume) ==
    IF purchaseVolume > 0
    THEN [num |-> claimCount * 100, den |-> purchaseVolume]
    ELSE [num |-> 0, den |-> 1]

\* 100 - claimRate
SurvivalRate(claimRate) ==
    [num |-> 100 * claimRate.den - claimRate.num, den |-> claimRate.den]

RECURSIVE CohortPoints(_, _, _, _, _, _, _)
CohortPoints(cohortMonth, claims, purchaseVolume, monthsSince, maxMonths, now, tz) ==
    IF monthsSince > maxMonths THEN <<>>
    ELSE LET rest == CohortPoints(cohortMonth, claims, purchaseVolume,
                                  monthsSince + 1, maxMonths, now, tz)
         IN  IF DataPointMonthKey(cohortMonth, monthsSince, tz)
                    > LastCompleteMonthKey(now)
             THEN rest
             ELSE LET claimCount == IF monthsSince \in DOMAIN claims
                                    THEN claims[monthsSince] ELSE 0
                      claimRate  == ClaimRate(claimCount, purchaseVolume)
                  IN  <<[cohortMonth         |-> cohortMonth,
                         cohortLabel         |-> getPeriodLabel(cohortMonth),
                         monthsSincePurchase |-> monthsSince,
                         claimCount          |-> claimCount,
                         purchaseVolume      |-> purchaseVolume,
                         survivalRate        |-> SurvivalRate(claimRate),
                         claimRate           |-> claimRate]>> \o rest

\* Object.keys(...).sort() of zero-padded keys.
RECURSIVE SortedKeys(_)
SortedKeys(S) ==
    IF S = {} THEN <<>>
    ELSE LET least == CHOOSE x \in S : \A y \in S : x <= y
         IN  <<least>> \o SortedKeys(S \ {least})

RECURSIVE EmitCohorts(_, _, _, _, _, _, _, _)
EmitCohorts(cohortMonths, i, cohortClaims, volumeMap, productFilter, claimType, now, tz) ==
    IF i > Len(cohortMonths) THEN <<>>
    ELSE LET cohortMonth == cohortMonths[i]
         IN  CohortPoints(cohortMonth, cohortClaims[cohortMonth],
                          CohortPurchaseVolume(volumeMap, cohortMonth, productFilter),
                          0, maxMonthsOf(claimType), now, tz)
             \o EmitCohorts(cohortMonths, i + 1, cohortClaims, volumeMap,
                            productFilter, claimType, now, tz)

\* calculateCohortSurvival; now is the clock it reads (new Date()) and tz
\* the time zone of the process.
calculateCohortSurvival(regs, pvs, productFilter, startMonth, endMonth, claimType, now, tz) ==
    LET cohortClaims == GroupClaims(regs, 1, EmptyRecord, productFilter,
                                    startMonth, endMonth, claimType)
        volumeMap    == BuildVolumeMap(pvs, 1, EmptyRecord)
        cohortMonths == SortedKeys(DOMAIN cohortClaims)
    IN  EmitCohorts(cohortMonths, 1, cohortClaims, volumeMap, productFilter,
                    claimType, now, tz)


\* -------------------------------------------------- claims over time
\* The calendar date of a day count.
CivilFromDays(days) ==
    LET z   == days + 719468
        era == z \div 146097
        doe == z - era * 146097
        yoe == (doe - doe \div 1460 + doe \div 36524 - doe \div 146096) \div 365
        doy == doe - (365 * yoe + yoe \div 4 - yoe \div 100)
        mp  == (5 * doy + 2) \div 153
        d   == doy - (153 * mp + 2) \div 5 + 1
        m   == IF mp < 10 THEN mp + 3 ELSE mp - 9
        y   == yoe + era * 400 + (IF m <= 2 THEN 1 ELSE 0)
    IN  Date(y, m, d, 0)

\* Date.getDay(): 0 is Sunday.
getDay(days) == (days + 4) % 7

getWeekNumber(date) ==
    LET d0        == DaysFromCivil(date.y, date.m, date.d)
        dayNum    == IF getDay(d0) = 0 THEN 7 ELSE getDay(d0)
        d         == d0 + 4 - dayNum
        year      == CivilFromDays(d).y
        yearStart == DaysFromCivil(year, 1, 1)
    IN  [year |-> year, week |-> CeilDiv((d - yearStart) + 1, 7)]

getFirstDayOfWeek(year, week) ==
    LET firstDay  == DaysFromCivil(year, 1, 1) + (week - 1) * 7
        dayOfWeek == getDay(firstDay)
    IN  CivilFromDays(
            IF dayOfWeek = 0 THEN firstDay - 6
            ELSE IF dayOfWeek # 1 THEN firstDay - (dayOfWeek - 1)
            ELSE firstDay)

TimePeriods == {"daily", "weekly", "monthly", "yearly"}

\* Keys are the padded strings read as numbers: "2024-01-20" is 20240120,
\* "2024-W03" is 202403, "2024-01" is 202401, "2024" is 2024.
getExtendedPeriodKey(date, period) ==
    CASE period = "daily"   -> date.y * 10000 + date.m * 100 + date.d
      [] period = "weekly"  -> LET wk == getWeekNumber(date)
                               IN  wk.year * 100 + wk.week
      [] period = "monthly" -> date.y * 100 + date.m
      [] period = "yearly"  -> date.y

getExtendedPeriodLabel(periodKey, period) ==
    CASE period = "daily"   ->
             <<MonthNames[(periodKey \div 100) % 100], periodKey % 100,
               periodKey \div 10000>>
      [] period = "weekly"  ->
             LET firstDay == getFirstDayOfWeek(periodKey \div 100, periodKey % 100)
             IN  <<MonthNames[firstDay.m], firstDay.d, firstDay.y>>
      [] period = "monthly" -> <<MonthNames[periodKey % 100], periodKey \div 100>>
      [] period = "yearly"  -> <<periodKey>>

DigitChars == <<"0", "1", "2", "3", "4", "5", "6", "7", "8", "9">>

\* String(n) of a natural number.
RECURSIVE NumberText(_)
NumberText(n) ==
    IF n < 10 THEN <<DigitChars[n + 1]>>
    ELSE NumberText(n \div 10) \o <<DigitChars[(n % 10) + 1]>>

PadStart2None(n) == NumberText(n)

\* String(n).padStart(2, "0")
PadStart2(n) == IF Len(NumberText(n)) < 2 THEN <<"0">> \o NumberText(n) ELSE NumberText(n)

\* getExtendedPeriodKey as the text it returns, character by character.
PeriodKeyText(date, period) ==
    CASE period = "daily"   ->
             NumberText(date.y) \o <<"-">> \o PadStart2(date.m) \o <<"-">> \o PadStart2(date.d)
      [] period = "weekly"  ->
             NumberText(getWeekNumber(date).year) \o <<"-", "W">>
             \o PadStart2(getWeekNumber(date).week)
      [] period = "monthly" -> NumberText(date.y) \o <<"-">> \o PadStart2(date.m)
      [] period = "yearly"  -> NumberText(date.y)

GroupBys == {"none", "productName", "sku", "reason", "purchaseChannel", "serialNumber"}

OrElse(value, fallback) == IF value = "" THEN fallback ELSE value

getGroupValue(reg, by) ==
    CASE by = "productName"     -> OrElse(reg.productName, "Unknown Product")
      [] by = "sku"             -> OrElse(reg.productSku, "Unknown SKU")
      [] by = "reason"          -> OrElse(reg.reason, "Unknown Reason")
      [] by = "purchaseChannel" -> OrElse(reg.channel, "Unknown Channel")
      [] by = "serialNumber"    ->
             IF reg.serialNumbers = <<>> THEN "Unknown Serial"
             ELSE OrElse(reg.serialNumbers[1], "Unknown Serial")
      [] OTHER                  -> "All Claims"

\* counts[category] || 0
CountOf(counts, category) ==
    IF category \in DOMAIN counts THEN counts[category] ELSE 0

\* The records the first loop skips: if (!reg.createdAt) continue.
SkipsRecord(reg, claimType) == reg.createdAt = Absent

\* The first loop: allCategories in insertion order and periodData.
RECURSIVE CollectPeriods(_, _, _, _, _, _)
CollectPeriods(regs, i, period, by, claimType, acc) ==
    IF i > Len(regs) THEN acc
    ELSE IF SkipsRecord(regs[i], claimType)
    THEN CollectPeriods(regs, i + 1, period, by, claimType, acc)
    ELSE LET periodKey == getExtendedPeriodKey(regs[i].createdAt, period)
             category  == getGroupValue(regs[i], by)
             old       == IF periodKey \in DOMAIN acc.periodData
                          THEN acc.periodData[periodKey] ELSE EmptyRecord
             new       == [c \in (DOMAIN old) \cup {category} |->
                              CountOf(old, c) + (IF c = category THEN 1 ELSE 0)]
         IN  CollectPeriods(regs, i + 1, period, by, claimType,
                [allCategories |->
                     IF Includes(acc.allCategories, category)
                     THEN acc.allCategories
                     ELSE Append(acc.allCategories, category),
                 periodData |->
                     [p \in (DOMAIN acc.periodData) \cup {periodKey} |->
                         IF p = periodKey THEN new ELSE acc.periodData[p]]])

RECURSIVE SumOver(_, _)
SumOver(f, S) ==
    IF S = {} THEN 0
    ELSE LET x == CHOOSE x \in S : TRUE
         IN  f[x] + SumOver(f, S \ {x})

\* categoryCounts[category] || 0
CategoryCount(periodData, category) ==
    SumOver([p \in DOMAIN periodData |-> CountOf(periodData[p], category)],
            DOMAIN periodData)

\* Array.prototype.sort is stable: a category goes behind every category
\* sorted so far whose count is not smaller.
RECURSIVE InsertByCount(_, _, _)
InsertByCount(sorted, category, periodData) ==
    IF sorted = <<>> THEN <<category>>
    ELSE IF CategoryCount(periodData, Head(sorted)) >= CategoryCount(periodData, category)
         THEN <<Head(sorted)>> \o InsertByCount(Tail(sorted), category, periodData)
         ELSE <<category>> \o sorted

RECURSIVE SortByCount(_, _, _, _)
SortByCount(categories, i, sorted, periodData) ==
    IF i > Len(categories) THEN sorted
    ELSE SortByCount(categories, i + 1,
                     InsertByCount(sorted, categories[i], periodData), periodData)

TopCategoryLimit == 15

\* Array.prototype.slice(from, to)
Slice(arr, from, to) ==
    IF from >= Len(arr) THEN <<>>
    ELSE SubSeq(arr, from + 1, IF to < Len(arr) THEN to ELSE Len(arr))

\* dataPoint[key] = value: the key "total" is the total itself.
SetKey(dataPoint, key, value) ==
    IF key = "total"
    THEN [dataPoint EXCEPT !.total = value]
    ELSE [dataPoint EXCEPT !.series =
              [k \in (DOMAIN dataPoint.series) \cup {key} |->
                  IF k = key THEN value ELSE dataPoint.series[k]]]

RECURSIVE AddTopCategories(_, _, _, _)
AddTopCategories(dataPoint, topCategories, i, counts) ==
    IF i > Len(topCategories) THEN dataPoint
    ELSE LET set == SetKey(dataPoint, topCategories[i],
                           CountOf(counts, topCategories[i]))
         IN  AddTopCategories(
                 [set EXCEPT !.total = set.total + CountOf(counts, topCategories[i])],
                 topCategories, i + 1, counts)

RECURSIVE SumCategories(_, _, _)
SumCategories(categories, i, counts) ==
    IF i > Len(categories) THEN 0
    ELSE CountOf(counts, categories[i]) + SumCategories(categories, i + 1, counts)

\* The data point of one period.
PeriodPoint(periodKey, counts, period, topCategories, otherCategories) ==
    LET start == [period |-> periodKey,
                  periodLabel |-> getExtendedPeriodLabel(periodKey, period),
                  total |-> 0,
                  series |-> EmptyRecord,
                  otherBreakdown |-> EmptyRecord]
        top   == AddTopCategories(start, topCategories, 1, counts)
        otherCount == SumCategories(otherCategories, 1, counts)
        breakdown  ==
            LET named == {otherCategories[j] : j \in 1..Len(otherCategories)}
            IN  [c \in {c \in named : CountOf(counts, c) > 0} |-> counts[c]]
    IN  IF Len(otherCategories) > 0 /\ otherCount > 0
        THEN LET withOther == SetKey(top, "Other", otherCount)
             IN  [withOther EXCEPT !.total = withOther.total + otherCount,
                                   !.otherBreakdown = breakdown]
        ELSE top

RECURSIVE PeriodPoints(_, _, _, _, _, _)
PeriodPoints(periods, i, periodData, period, topCategories, otherCategories) ==
    IF i > Len(periods) THEN <<>>
    ELSE <<PeriodPoint(periods[i], periodData[periods[i]], period,
                       topCategories, otherCategories)>>
         \o PeriodPoints(periods, i + 1, periodData, period,
                         topCategories, otherCategories)

\* The second half of calculateClaimsOverTime: the categories sorted by
\* count, the top categories, the rest and the data points.
BuildResult(collected, sortedCategories, period, by) ==
    LET topCategories   == IF by = "none" THEN sortedCategories
                           ELSE Slice(sortedCategories, 0, TopCategoryLimit)
        otherCategories == IF by = "none" THEN <<>>
                           ELSE Slice(sortedCategories, TopCategoryLimit,
                                      Len(sortedCategories))
    IN  [data |-> PeriodPoints(SortedKeys(DOMAIN collected.periodData), 1,
                               collected.periodData, period,
                               topCategories, otherCategories),
         categories |-> IF Len(otherCategories) > 0
                        THEN Append(topCategories, "Other")
                        ELSE topCategories]

calculateClaimsOverTime(regs, period, by, claimType) ==
    CHOOSE result \in
        {BuildResult(collected, sorted, period, by) :
            <<collected, sorted>> \in
                {<<c, SortByCount(c.allCategories, 1, <<>>, c.periodData)>> :
                    c \in {CollectPeriods(regs, 1, period, by, claimType,
                              [allCategories |-> <<>>,
                               periodData |-> EmptyRecord])}}} : TRUE

\* ------------------------------------------------- filters and percentage
\* String.prototype.charCodeAt: the UTF-16 code unit of a character.
CodeUnit(c) ==
    CASE c = " " -> 32
      [] c = "-" -> 45
      [] c = "0" -> 48
      [] c = "1" -> 49
      [] c = "2" -> 50
      [] c = "3" -> 51
      [] c = "4" -> 52
      [] c = "5" -> 53
      [] c = "6" -> 54
      [] c = "7" -> 55
      [] c = "8" -> 56
      [] c = "9" -> 57
      [] c = "A" -> 65
      [] c = "C" -> 67
      [] c = "D" -> 68
      [] c = "G" -> 71
      [] c = "L" -> 76
      [] c = "N" -> 78
      [] c = "P" -> 80
      [] c = "S" -> 83
      [] c = "U" -> 85
      [] c = "V" -> 86
      [] c = "W" -> 87
      [] c = "X" -> 88
      [] c = "Z" -> 90
      [] c = "a" -> 97
      [] c = "d" -> 100
      [] c = "e" -> 101
      [] c = "g" -> 103
      [] c = "h" -> 104
      [] c = "i" -> 105
      [] c = "k" -> 107
      [] c = "l" -> 108
      [] c = "m" -> 109
      [] c = "n" -> 110
      [] c = "o" -> 111
      [] c = "p" -> 112
      [] c = "r" -> 114
      [] c = "s" -> 115
      [] c = "t" -> 116
      [] c = "v" -> 118
      [] c = "z" -> 122

\* The < of strings that Array.prototype.sort() uses without a comparator:
\* code unit by code unit, a prefix first.
RECURSIVE LessFrom(_, _, _)
LessFrom(s, u, i) ==
    IF i > Len(u) THEN FALSE
    ELSE IF i > Len(s) THEN TRUE
    ELSE IF CodeUnit(s[i]) # CodeUnit(u[i]) THEN CodeUnit(s[i]) < CodeUnit(u[i])
    ELSE LessFrom(s, u, i + 1)

StringLess(a, b) == LessFrom(Chars(a), Chars(b), 1)

\* Array.from(set).sort()
RECURSIVE SortStrings(_)
SortStrings(S) ==
    IF S = {} THEN <<>>
    ELSE LET least == CHOOSE x \in S : \A y \in S \ {x} : StringLess(x, y)
         IN  <<least>> \o SortStrings(S \ {least})

Elements(arr) == {arr[j] : j \in 1..Len(arr)}

\* if (value) set.add(value), over all records.
TruthyValues(regs, field) ==
    {regs[i][field] : i \in 1..Len(regs)} \ {""}

\* for (const sn of reg.serialNumbers) serialNumbers.add(sn)
AllSerials(regs) == UNION {Elements(regs[i].serialNumbers) : i \in 1..Len(regs)}

extractFilterValues(regs) ==
    [productNames     |-> SortStrings(TruthyValues(regs, "productName")),
     skus             |-> SortStrings(TruthyValues(regs, "productSku")),
     serialNumbers    |-> SortStrings(AllSerials(regs)),
     reasons          |-> SortStrings(TruthyValues(regs, "reason")),
     subReasons       |-> SortStrings(TruthyValues(regs, "subReason")),
     purchaseChannels |-> SortStrings(TruthyValues(regs, "channel"))]

\* One facet of applyFilters on a single value: a missing or empty
\* selection passes every record.
FacetPasses(selection, value) ==
    IF Len(selection) > 0
    THEN ~(value = "" \/ ~Includes(selection, value))
    ELSE TRUE

\* The serial-number facet: some serial of the record is selected.
SerialPasses(selection, serials) ==
    IF Len(selection) > 0
    THEN \E j \in 1..Len(serials) : Includes(selection, serials[j])
    ELSE TRUE

PassesFiltersAny(reg, selected) ==
    \/ FacetPasses(selected.productNames, reg.productName)
    \/ FacetPasses(selected.skus, reg.productSku)
    \/ SerialPasses(selected.serialNumbers, reg.serialNumbers)
    \/ FacetPasses(selected.reasons, reg.reason)
    \/ FacetPasses(selected.subReasons, reg.subReason)
    \/ FacetPasses(selected.purchaseChannels, reg.channel)

PassesFilters(reg, selected) ==
    /\ FacetPasses(selected.productNames, reg.productName)
    /\ FacetPasses(selected.skus, reg.productSku)
    /\ SerialPasses(selected.serialNumbers, reg.serialNumbers)
    /\ FacetPasses(selected.reasons, reg.reason)
    /\ FacetPasses(selected.subReasons, reg.subReason)
    /\ FacetPasses(selected.purchaseChannels, reg.channel)

\* Array.prototype.filter keeps the order of the array.
RECURSIVE applyFilters(_, _)
applyFilters(regs, selected) ==
    IF regs = <<>> THEN <<>>
    ELSE (IF PassesFilters(Head(regs), selected) THEN <<Head(regs)>> ELSE <<>>)
         \o applyFilters(Tail(regs), selected)

KeepsExposure(reg, claimType) ==
    IF reg.createdAt = Absent \/ reg.shopifyOrderCreatedAt = Absent
    THEN FALSE
    ELSE isValidExposure(
             calculateExposureDays(reg.shopifyOrderCreatedAt, reg.createdAt),
             claimType)

RECURSIVE filterByValidExposure(_, _)
filterByValidExposure(regs, claimType) ==
    IF regs = <<>> THEN <<>>
    ELSE (IF KeepsExposure(Head(regs), claimType) THEN <<Head(regs)>> ELSE <<>>)
         \o filterByValidExposure(Tail(regs), claimType)

\* getPeriodKey(date, period) for both granularities; "2024-W03" is 202403.
getPeriodKeyBy(date, period) ==
    IF period = "monthly" THEN getPeriodKey(date)
    ELSE getWeekNumber(date).year * 100 + getWeekNumber(date).week

AddExposureLast(entry, exposureDays) ==
    [claimCount |-> entry.claimCount + 1, totalExposureDays |-> exposureDays]

\* periodData[periodKey].claimCount += 1; .totalExposureDays += exposureDays
AddExposure(entry, exposureDays) ==
    [claimCount |-> entry.claimCount + 1,
     totalExposureDays |-> entry.totalExposureDays + exposureDays]

\* The loop of calculateClaimsPercentageByPeriod over the records.
RECURSIVE GroupExposure(_, _, _, _, _)
GroupExposure(regs, i, period, claimType, periodData) ==
    IF i > Len(regs) THEN periodData
    ELSE IF ~KeepsExposure(regs[i], claimType)
    THEN GroupExposure(regs, i + 1, period, claimType, periodData)
    ELSE GroupExposure(regs, i + 1, period, claimType,
             [k \in (DOMAIN periodData) \cup {getPeriodKeyBy(regs[i].createdAt, period)} |->
                 IF k = getPeriodKeyBy(regs[i].createdAt, period)
                 THEN AddExposure(
                          IF k \in DOMAIN periodData THEN periodData[k]
                          ELSE [claimCount |-> 0, totalExposureDays |-> 0],
                          calculateExposureDays(regs[i].shopifyOrderCreatedAt,
                                                regs[i].createdAt))
                 ELSE periodData[k]])

\* (claimCount / totalExposureDays) * 100, or 0 without exposure days.
ClaimsPercentage(entry) ==
    IF entry.totalExposureDays > 0
    THEN [num |-> entry.claimCount * 100, den |-> entry.totalExposureDays]
    ELSE [num |-> 0, den |-> 1]

ChartPoint(periodKey, entry, period) ==
    [period |-> periodKey,
     periodLabel |-> getExtendedPeriodLabel(periodKey, period),
     claimCount |-> entry.claimCount,
     totalExposureDays |-> entry.totalExposureDays,
     claimsPercentage |-> ClaimsPercentage(entry)]

RECURSIVE ChartPoints(_, _, _, _)
ChartPoints(keys, i, periodData, period) ==
    IF i > Len(keys) THEN <<>>
    ELSE <<ChartPoint(keys[i], periodData[keys[i]], period)>>
         \o ChartPoints(keys, i + 1, periodData, period)

calculateClaimsPercentageByPeriod(regs, period, claimType) ==
    CHOOSE result \in
        {ChartPoints(SortedKeys(DOMAIN periodData), 1, periodData, period) :
            periodData \in {GroupExposure(regs, 1, period, claimType, EmptyRecord)}} :
        TRUE

\* ------------------------------------------- the cohort chart's inputs
Reg(purchase, claim, channel, productName) ==
    [NoRegistration EXCEPT !.shopifyOrderCreatedAt = purchase,
                           !.createdAt = claim,
                           !.channel = channel,
                           !.productName = productName]

\* The records the registration API may deliver.  The engine's result does
\* not depend on the order of the records, so lists are enumerated in the
\* order of this table only.
RegDomain ==
    << Reg(Date(2024, 1, 10, 0), Date(2024, 1, 20, 0), "Shop App", "Dental Pod White"),
       Reg(Date(2024, 1, 10, 0), Date(2024, 2, 5, 0), "Shop App", "Dental Pod White"),
       Reg(Date(2024, 2, 5, 0), Date(2024, 2, 20, 0), "Shop App", "Dental Pod Go White"),
       Reg(Date(2024, 1, 31, 1), Date(2024, 3, 2, 0), "Zima Dental Website", "Dental Pod White"),
       Reg(Date(2024, 1, 10, 0), Date(2025, 1, 5, 0), "Shop App", "Dental Pod White"),
       Reg(Date(2024, 1, 10, 0), Date(2025, 2, 20, 0), "Shop App", "Dental Pod White"),
       Reg(Date(2024, 2, 5, 0), Date(2024, 1, 20, 0), "Shop App", "Dental Pod White"),
       Reg(Absent, Date(2024, 1, 20, 0), "Shop App", "Dental Pod White"),
       Reg(Date(2024, 1, 10, 0), Absent, "Shop App", "Dental Pod White"),
       Reg(Date(2024, 1, 10, 0), Date(2024, 1, 20, 0), "Amazon", "Dental Pod White"),
       Reg(Date(2024, 1, 10, 0), Date(2024, 1, 20, 0), "", "Dental Pod White"),
       Reg(Date(2024, 1, 10, 0), Date(2024, 1, 20, 0), "Shop App", "Widget X"),
       Reg(Date(2024, 1, 10, 0), Date(2024, 1, 20, 0), "Shop App", "") >>

\* The records used where the purchase volumes are what varies.
CoreRegs == SubSeq(RegDomain, 1, 3)

PurchaseChannels == {"", "Shop App", "Zima Dental Website", "Amazon"}

\* The cells of the purchase-volume table a user fills in.
VolumeCells ==
    { [yearMonth |-> 202401, product |-> "Dental Pod", purchaseCount |-> 3],
      [yearMonth |-> 202401, product |-> "Dental Pod Go", purchaseCount |-> 2],
      [yearMonth |-> 202401, product |-> "All Products", purchaseCount |-> 7],
      [yearMonth |-> 202402, product |-> "Dental Pod", purchaseCount |-> 1] }

\* The volumes found in the store when the dashboard loads.
StoredVolumes ==
    { <<>>,
      << [yearMonth |-> 202401, product |-> "Dental Pod", purchaseCount |-> 3],
         [yearMonth |-> 202401, product |-> "Dental Pod Go", purchaseCount |-> 2] >> }

\* The records given to the claims-over-time chart.
OverTimeDomain ==
    << [Reg(Date(2024, 1, 10, 0), Date(2024, 1, 20, 0), "Shop App", "Dental Pod White")
           EXCEPT !.productSku = "DP-W", !.serialNumbers = <<"SN1">>,
                  !.reason = "Broken"],
       [Reg(Date(2024, 2, 5, 0), Date(2024, 2, 20, 0), "Amazon", "Dental Pod Go White")
           EXCEPT !.productSku = "DPG-W", !.reason = "Noise"],
       Reg(Absent, Date(2024, 1, 20, 0), "Shop App", "Dental Pod White"),
       Reg(Date(2024, 1, 10, 0), Date(2025, 2, 20, 0), "Shop App", "Dental Pod White"),
       Reg(Date(2024, 1, 10, 0), Absent, "Shop App", "Dental Pod White") >>

ProductFilters == {"All Products", "Dental Pod"}

DateRanges == {<<202401, 202401>>, <<202401, 202402>>, <<202402, 202402>>}

\* The wall-clock times at which the chart is computed.
Clock == <<Date(2024, 2, 15, 0), Date(2025, 3, 15, 0)>>

VARIABLES
    registrations,     \* the registrations argument
    purchaseVolumes,   \* the purchaseVolumes argument (the stored volumes)
    productFilter,     \* the product select of the cohort chart
    startMonth,        \* the From select
    endMonth,          \* the To select
    claimType,         \* the warranty/return toggle
    clock,             \* index into Clock of the current wall-clock time
    tz,                \* the time zone of the browser
    cohortData,        \* the last result of calculateCohortSurvival
    overTimeRegistrations,  \* the registrations of the claims-over-time chart
    timePeriod,        \* its granularity
    groupBy,           \* its grouping
    overTimeClaimType, \* its claimType argument
    overTime,          \* the last result of calculateClaimsOverTime
    daysArg,           \* isValidExposure: the exposureDays argument
    typeArg,           \* isValidExposure: the claimType argument
    validResult,       \* isValidExposure: the value returned
    purchaseArg,       \* calculateExposureDays: the purchaseDate argument
    claimArg,          \* calculateExposureDays: the claimDate argument
    daysResult,        \* calculateExposureDays: the value returned
    namesArg,          \* extractProductType: the names classified so far
    typesResult,       \* extractProductType: the type returned for each
    dateA,             \* getExtendedPeriodKey: an earlier date
    dateB,             \* getExtendedPeriodKey: a later date
    periodArg,         \* getExtendedPeriodKey: the granularity
    keyA,              \* the period key of dateA
    keyB,              \* the period key of dateB
    labelA,            \* getExtendedPeriodLabel of keyA
    allRegistrations,  \* the dashboard: the registrations of the form
    filters,           \* the dashboard: the selected filter facets
    chartPeriod,       \* the dashboard: weekly or monthly
    dashClaimType,     \* the dashboard: the warranty/return toggle
    dashboard          \* the dashboard: everything it derives from these

VARIABLES
    registrationsByForm,  \* the cache: the registrations of each form
    countsByForm,         \* the cache: the count of each form
    totalCount,           \* the cache: the total count
    variant,              \* fetchRegistrationsPage: lib/api.ts or scripts/fetch-data.ts
    retriesAllowed,       \* fetchRegistrationsPage: the maxRetries argument
    attempt,              \* fetchRegistrationsPage: the loop counter
    responses,            \* the HTTP status of every request made so far
    delays,               \* the seconds slept before each retry
    outcome,              \* "running", "returned" or the error thrown
    syncPage,             \* fetchHistoricalRegistrations: page
    historical,           \* fetchHistoricalRegistrations: allRegistrations (ids)
    seenIds,              \* fetchHistoricalRegistrations: seenIds
    firstSeen,            \* history: the ids of the fetched pages, in first-seen order
    syncRequests,         \* history: the number of pages requested
    syncStatus,           \* "running" or "returned"
    stored,               \* registrationsByForm[slug] of the dashboard (ids)
    existingIds,          \* fetchNewestRegistrations: existingIds
    newestPage,           \* fetchNewestRegistrations: page
    newRegistrations,     \* fetchNewestRegistrations: newRegistrations (ids)
    consecutiveOldPages,  \* fetchNewestRegistrations: consecutiveOldPages
    refreshStatus,        \* "idle" or "fetching"
    volumeStore,          \* the purchase-volume document in the store
    startVolumes,         \* history: the document at the start
    sessions,             \* each browser session: its props and its modal
    savedEdits            \* history: the cells each session edited and saved

cacheVars == <<registrationsByForm, countsByForm, totalCount>>

pageVars == <<variant, retriesAllowed, attempt, responses, delays, outcome>>

syncVars == <<syncPage, historical, seenIds, firstSeen, syncRequests, syncStatus>>

newestVars == <<stored, existingIds, newestPage, newRegistrations, consecutiveOldPages, refreshStatus>>

modalVars == <<volumeStore, startVolumes, sessions, savedEdits>>

serviceVars == <<cacheVars, pageVars, syncVars, newestVars, modalVars>>

cohortVars ==
    <<registrations, purchaseVolumes, productFilter, startMonth, endMonth,
      claimType, clock, tz, cohortData>>

overTimeVars ==
    <<overTimeRegistrations, timePeriod, groupBy, overTimeClaimType, overTime>>

exposureVars ==
    <<daysArg, typeArg, validResult, purchaseArg, claimArg, daysResult>>

classifyVars == <<namesArg, typesResult>>

periodVars == <<dateA, dateB, periodArg, keyA, keyB, labelA>>

dashVars == <<allRegistrations, filters, chartPeriod, dashClaimType, dashboard>>

toolVars == <<exposureVars, classifyVars, periodVars, dashVars>>

vars == <<cohortVars, overTimeVars, toolVars, serviceVars>>

\* The values the other variables keep while one part is exercised.
ExposureIdle ==
    /\ daysArg = 0
    /\ typeArg = "warranty"
    /\ validResult = TRUE
    /\ purchaseArg = Date(2024, 1, 10, 0)
    /\ claimArg = Date(2024, 1, 10, 0)
    /\ daysResult = 0

ClassifyIdle ==
    /\ namesArg = <<>>
    /\ typesResult = <<>>

PeriodIdle ==
    /\ dateA = Date(2024, 1, 1, 0)
    /\ dateB = Date(2024, 1, 1, 0)
    /\ periodArg = "monthly"
    /\ keyA = PeriodKeyText(dateA, periodArg)
    /\ keyB = PeriodKeyText(dateB, periodArg)
    /\ labelA = <<"Jan", 2024>>

NoFilterValues ==
    [productNames |-> <<>>, skus |-> <<>>, serialNumbers |-> <<>>,
     reasons |-> <<>>, subReasons |-> <<>>, purchaseChannels |-> <<>>]

DashIdle ==
    /\ allRegistrations = <<>>
    /\ filters = NoFilterValues
    /\ chartPeriod = "monthly"
    /\ dashClaimType = "warranty"
    /\ dashboard = [registrations |-> <<>>, excludedCount |-> 0,
                    filterValues |-> NoFilterValues, filtered |-> <<>>,
                    chartData |-> <<>>]

CacheIdle ==
    /\ registrationsByForm = <<>>
    /\ countsByForm = <<>>
    /\ totalCount = 0

PageIdle ==
    /\ variant = "api"
    /\ retriesAllowed = 0
    /\ attempt = 0
    /\ responses = <<>>
    /\ delays = <<>>
    /\ outcome = "idle"

SyncIdle ==
    /\ syncPage = 1
    /\ historical = <<>>
    /\ seenIds = {}
    /\ firstSeen = <<>>
    /\ syncRequests = 0
    /\ syncStatus = "idle"

NewestIdle ==
    /\ stored = <<>>
    /\ existingIds = {}
    /\ newestPage = 1
    /\ newRegistrations = <<>>
    /\ consecutiveOldPages = 0
    /\ refreshStatus = "idle"

ModalIdle ==
    /\ volumeStore = <<>>
    /\ startVolumes = <<>>
    /\ sessions = <<>>
    /\ savedEdits = <<>>

ServiceIdle == CacheIdle /\ PageIdle /\ SyncIdle /\ NewestIdle /\ ModalIdle

ToolsIdle == ExposureIdle /\ ClassifyIdle /\ PeriodIdle /\ DashIdle /\ ServiceIdle

\* cohortData = useMemo(() => calculateCohortSurvival(...), [its arguments])
CohortMemo(regs, pvs, filter, from, to, type, clk, zone) ==
    calculateCohortSurvival(regs, pvs, filter, from, to, type, Clock[clk], zone)

IndexInDomain(r) == CHOOSE i \in 1..Len(RegDomain) : RegDomain[i] = r


\* ------------------------------------------------- cohort chart actions
\* handleRefresh: a fetched record is put in front of the stored ones, and
\* the chart is computed again.
handleRefresh(r) ==
    /\ Len(registrations) < MaxRegs
    /\ IF registrations = <<>> THEN TRUE
       ELSE IndexInDomain(r) <= IndexInDomain(Head(registrations))
    /\ registrations' = <<r>> \o registrations
    /\ cohortData' = CohortMemo(registrations', purchaseVolumes, productFilter,
                                startMonth, endMonth, claimType, clock, tz)
    /\ UNCHANGED <<purchaseVolumes, productFilter, startMonth, endMonth,
                   claimType, clock, tz, overTimeVars, toolVars,
                   serviceVars>>

\* The modal's volumes map after handleChange(month, product, value): an
\* existing key keeps its place, a new key goes last.
RECURSIVE SetCell(_, _, _, _)
SetCell(volumes, i, cell, count) ==
    IF i > Len(volumes)
    THEN <<[cell EXCEPT !.purchaseCount = count]>>
    ELSE IF volumes[i].yearMonth = cell.yearMonth /\ volumes[i].product = cell.product
         THEN <<[volumes[i] EXCEPT !.purchaseCount = count]>>
              \o SubSeq(volumes, i + 1, Len(volumes))
         ELSE <<volumes[i]>> \o SetCell(volumes, i + 1, cell, count)

\* handleSave: only the cells with a positive count are stored.
RECURSIVE PositiveCells(_, _)
PositiveCells(volumes, i) ==
    IF i > Len(volumes) THEN <<>>
    ELSE (IF volumes[i].purchaseCount > 0 THEN <<volumes[i]>> ELSE <<>>)
         \o PositiveCells(volumes, i + 1)

\* The purchase-volume modal: one cell edited, then Save Changes;
\* handlePurchaseVolumesUpdate stores the array and the chart is computed again.
handlePurchaseVolumesUpdate(cell, count) ==
    LET volumeArray == PositiveCells(SetCell(purchaseVolumes, 1, cell, count), 1)
    IN  /\ Len(volumeArray) <= MaxVols
        /\ volumeArray # purchaseVolumes
        /\ purchaseVolumes' = volumeArray
        /\ cohortData' = CohortMemo(registrations, purchaseVolumes', productFilter,
                                    startMonth, endMonth, claimType, clock, tz)
        /\ UNCHANGED <<registrations, productFilter, startMonth, endMonth,
                       claimType, clock, tz, overTimeVars, toolVars,
                   serviceVars>>

setProductFilter(f) ==
    /\ f # productFilter
    /\ productFilter' = f
    /\ cohortData' = CohortMemo(registrations, purchaseVolumes, productFilter',
                                startMonth, endMonth, claimType, clock, tz)
    /\ UNCHANGED <<registrations, purchaseVolumes, startMonth, endMonth,
                   claimType, clock, tz, overTimeVars, toolVars,
                   serviceVars>>

\* The From and To selects.
setDateRange(range) ==
    /\ range # <<startMonth, endMonth>>
    /\ startMonth' = range[1]
    /\ endMonth' = range[2]
    /\ cohortData' = CohortMemo(registrations, purchaseVolumes, productFilter,
                                startMonth', endMonth', claimType, clock, tz)
    /\ UNCHANGED <<registrations, purchaseVolumes, productFilter,
                   claimType, clock, tz, overTimeVars, toolVars,
                   serviceVars>>

handleClaimTypeChange(type) ==
    /\ type # claimType
    /\ claimType' = type
    /\ cohortData' = CohortMemo(registrations, purchaseVolumes, productFilter,
                                startMonth, endMonth, claimType', clock, tz)
    /\ UNCHANGED <<registrations, purchaseVolumes, productFilter, startMonth,
                   endMonth, clock, tz, overTimeVars, toolVars,
                   serviceVars>>

\* Time passes and the dashboard is opened again: calculateCohortSurvival
\* is called with the same arguments at a later wall-clock time.
Reopen ==
    /\ clock < Len(Clock)
    /\ clock' = clock + 1
    /\ cohortData' = CohortMemo(registrations, purchaseVolumes, productFilter,
                                startMonth, endMonth, claimType, clock', tz)
    /\ UNCHANGED <<registrations, purchaseVolumes, productFilter, startMonth,
                   endMonth, claimType, tz, overTimeVars, toolVars,
                   serviceVars>>

OverTimeMemo(regs, period, by, type) ==
    calculateClaimsOverTime(regs, period, by, type)

OverTimeIdle ==
    /\ overTimeRegistrations = <<>>
    /\ timePeriod = "monthly"
    /\ groupBy = "none"
    /\ overTimeClaimType = "warranty"
    /\ overTime = OverTimeMemo(<<>>, "monthly", "none", "warranty")

CohortIdle ==
    /\ registrations = <<>>
    /\ purchaseVolumes = <<>>
    /\ productFilter = "All Products"
    /\ startMonth = 0
    /\ endMonth = 0
    /\ claimType = "warranty"
    /\ clock = 1
    /\ tz = "utcOrAhead"
    /\ cohortData = <<>>

CohortStart ==
    /\ registrations = <<>>
    /\ productFilter = "All Products"
    /\ \E range \in DateRanges : startMonth = range[1] /\ endMonth = range[2]
    /\ claimType = "warranty"
    /\ clock = 1
    /\ tz \in TimeZones
    /\ cohortData = CohortMemo(registrations, purchaseVolumes, productFilter,
                               startMonth, endMonth, claimType, clock, tz)
    /\ OverTimeIdle
    /\ ToolsIdle

\* The cohort chart over the registrations the API may deliver.
Init ==
    /\ purchaseVolumes \in StoredVolumes
    /\ CohortStart

Controls ==
    \/ \E f \in ProductFilters : setProductFilter(f)
    \/ \E range \in DateRanges : setDateRange(range)
    \/ \E type \in ClaimTypes : handleClaimTypeChange(type)
    \/ Reopen

Next ==
    \/ \E i \in 1..Len(RegDomain) : handleRefresh(RegDomain[i])
    \/ Controls

Spec == Init /\ [][Next]_vars

\* The cohort chart over the purchase volumes a user may enter.
InitVolumes ==
    /\ purchaseVolumes = <<>>
    /\ CohortStart

NextVolumes ==
    \/ \E i \in 1..Len(CoreRegs) : handleRefresh(CoreRegs[i])
    \/ \E cell \in VolumeCells, count \in {0, 1} :
           handlePurchaseVolumesUpdate(cell, count * cell.purchaseCount)
    \/ Controls

SpecVolumes == InitVolumes /\ [][NextVolumes]_vars

\* ------------------------------------------ claims-over-time chart actions
\* The registrations prop changes: a fetched record is put in front.
overTimeRefresh(r) ==
    /\ Len(overTimeRegistrations) < MaxOverTimeRegs
    /\ overTimeRegistrations' = <<r>> \o overTimeRegistrations
    /\ overTime' = OverTimeMemo(overTimeRegistrations', timePeriod, groupBy,
                                overTimeClaimType)
    /\ UNCHANGED <<timePeriod, groupBy, overTimeClaimType, cohortVars, toolVars,
                   serviceVars>>

setTimePeriod(p) ==
    /\ p # timePeriod
    /\ timePeriod' = p
    /\ overTime' = OverTimeMemo(overTimeRegistrations, timePeriod', groupBy,
                                overTimeClaimType)
    /\ UNCHANGED <<overTimeRegistrations, groupBy, overTimeClaimType, cohortVars, toolVars,
                   serviceVars>>

setGroupBy(g) ==
    /\ g # groupBy
    /\ groupBy' = g
    /\ overTime' = OverTimeMemo(overTimeRegistrations, timePeriod, groupBy',
                                overTimeClaimType)
    /\ UNCHANGED <<overTimeRegistrations, timePeriod, overTimeClaimType, cohortVars, toolVars,
                   serviceVars>>

overTimeClaimTypeChange(type) ==
    /\ type # overTimeClaimType
    /\ overTimeClaimType' = type
    /\ overTime' = OverTimeMemo(overTimeRegistrations, timePeriod, groupBy,
                                overTimeClaimType')
    /\ UNCHANGED <<overTimeRegistrations, timePeriod, groupBy, cohortVars, toolVars,
                   serviceVars>>

InitOverTime == CohortIdle /\ OverTimeIdle /\ ToolsIdle

NextOverTime ==
    \/ \E i \in 1..Len(OverTimeDomain) : overTimeRefresh(OverTimeDomain[i])
    \/ \E p \in TimePeriods : setTimePeriod(p)
    \/ \E g \in GroupBys : setGroupBy(g)
    \/ \E type \in ClaimTypes : overTimeClaimTypeChange(type)

SpecOverTime == InitOverTime /\ [][NextOverTime]_vars

\* ------------------------------------------------- exposure functions
\* The day counts on which isValidExposure is called.
DayArgs == {-1, 0, 1, 30, 31, 32, 364, 365, 366}

\* The timestamps on which calculateExposureDays is called, one per
\* ExposureInstants index; MaxInstants of them are used.
ExposureInstants ==
    <<Date(2024, 1, 10, 0), Date(2024, 1, 10, 1), Date(2024, 1, 11, 0),
      Date(2024, 2, 5, 1), Date(2024, 3, 1, 0), Date(2025, 1, 9, 1),
      Date(2025, 1, 10, 0)>>

\* A call of isValidExposure(exposureDays, claimType).
validate(days, type) ==
    /\ <<days, type>> # <<daysArg, typeArg>>
    /\ daysArg' = days
    /\ typeArg' = type
    /\ validResult' = isValidExposure(days, type)
    /\ UNCHANGED <<purchaseArg, claimArg, daysResult, classifyVars, periodVars,
                   dashVars, cohortVars, overTimeVars,
                   serviceVars>>

\* A call of calculateExposureDays(purchaseDate, claimDate).
measure(purchase, claim) ==
    /\ <<purchase, claim>> # <<purchaseArg, claimArg>>
    /\ purchaseArg' = purchase
    /\ claimArg' = claim
    /\ daysResult' = calculateExposureDays(purchase, claim)
    /\ UNCHANGED <<daysArg, typeArg, validResult, classifyVars, periodVars,
                   dashVars, cohortVars, overTimeVars,
                   serviceVars>>

InitExposure ==
    /\ CohortIdle
    /\ OverTimeIdle
    /\ ClassifyIdle
    /\ PeriodIdle
    /\ DashIdle
    /\ ServiceIdle
    /\ daysArg \in DayArgs
    /\ typeArg \in ClaimTypes
    /\ validResult = isValidExposure(daysArg, typeArg)
    /\ \E i, j \in 1..MaxInstants :
           /\ purchaseArg = ExposureInstants[i]
           /\ claimArg = ExposureInstants[j]
    /\ daysResult = calculateExposureDays(purchaseArg, claimArg)

NextExposure ==
    \/ \E days \in DayArgs, type \in ClaimTypes : validate(days, type)
    \/ \E i, j \in 1..MaxInstants :
           measure(ExposureInstants[i], ExposureInstants[j])

SpecExposure == InitExposure /\ [][NextExposure]_vars

\* ------------------------------------------------ product classification
\* A call of extractProductType(productName); "" is a missing name.
classify(name) ==
    /\ Len(namesArg) < MaxNames
    /\ namesArg' = Append(namesArg, name)
    /\ typesResult' = Append(typesResult, extractProductType(name))
    /\ UNCHANGED <<exposureVars, periodVars, dashVars, cohortVars, overTimeVars,
                   serviceVars>>

InitClassify == CohortIdle /\ OverTimeIdle /\ ToolsIdle

NextClassify ==
    \E name \in ProductNames \cup MoreProductNames \cup {""} : classify(name)

SpecClassify == InitClassify /\ [][NextClassify]_vars

\* ------------------------------------------------------- the dashboard
DashReg(purchase, claim, productName, sku, serials, reason, subReason, channel) ==
    [productName |-> productName, productSku |-> sku, serialNumbers |-> serials,
     shopifyOrderCreatedAt |-> purchase, createdAt |-> claim,
     reason |-> reason, subReason |-> subReason, channel |-> channel]

\* The records of the form: ten days of exposure; twenty-seven days, claimed
\* in the following month; a purchase dated after the claim; no purchase
\* date and an empty serial number; a claim long after the purchase.
DashDomain ==
    << DashReg(Date(2024, 1, 10, 0), Date(2024, 1, 20, 0), "Dental Pod White",
               "DP-1", <<"S2", "S1">>, "Leak", "Lid", "Shop App"),
       DashReg(Date(2024, 1, 10, 0), Date(2024, 2, 5, 1), "dental pod go mint",
               "DP-2", <<"S2">>, "Noise", "", "Amazon"),
       DashReg(Date(2024, 2, 5, 0), Date(2024, 1, 20, 0), "Zima UV Case",
               "DP-1", <<>>, "", "", ""),
       DashReg(Absent, Date(2024, 1, 20, 0), "Dental Pod White",
               "", <<"">>, "Leak", "", "Shop App"),
       DashReg(Date(2024, 1, 10, 0), Date(2025, 2, 20, 0), "Zima UV Case",
               "DP-2", <<"S1">>, "Noise", "Lid", "Amazon") >>

\* The selections the filter panel is set to.
FilterChoices ==
    { NoFilterValues,
      [NoFilterValues EXCEPT !.productNames = <<"Dental Pod White">>],
      [NoFilterValues EXCEPT !.productNames = <<"Dental Pod White">>,
                             !.skus = <<"DP-2">>],
      [NoFilterValues EXCEPT !.serialNumbers = <<"S1">>],
      [NoFilterValues EXCEPT !.reasons = <<"Leak", "Noise">>,
                             !.purchaseChannels = <<"Shop App">>],
      [NoFilterValues EXCEPT !.subReasons = <<"Lid">>,
                             !.serialNumbers = <<"", "S2">>] }

\* The functions of the dashboard applied to a record list: the
\* valid-exposure records and the number excluded, the filter values, the
\* filtered records and the claims-percentage chart of the filtered records.
\* The page hands extractFilterValues and applyFilters the valid-exposure
\* list; here they get the whole list, so that they are also applied to the
\* records the exposure filter drops.  The chart's date range is "all".
Derive(regs, selected, period, type) ==
    [registrations |-> filterByValidExposure(regs, type),
     excludedCount |-> Len(regs) - Len(filterByValidExposure(regs, type)),
     filterValues  |-> extractFilterValues(regs),
     filtered      |-> applyFilters(regs, selected),
     chartData     |-> calculateClaimsPercentageByPeriod(
                           applyFilters(regs, selected), period, type)]

\* A fetched record is put in front of the stored ones.
dashRefresh(r) ==
    /\ Len(allRegistrations) < MaxDashRegs
    /\ allRegistrations' = <<r>> \o allRegistrations
    /\ dashboard' = Derive(allRegistrations', filters, chartPeriod, dashClaimType)
    /\ UNCHANGED <<filters, chartPeriod, dashClaimType, exposureVars,
                   classifyVars, periodVars, cohortVars, overTimeVars,
                   serviceVars>>

setFilters(selected) ==
    /\ selected # filters
    /\ filters' = selected
    /\ dashboard' = Derive(allRegistrations, selected, chartPeriod, dashClaimType)
    /\ UNCHANGED <<allRegistrations, chartPeriod, dashClaimType, exposureVars,
                   classifyVars, periodVars, cohortVars, overTimeVars,
                   serviceVars>>

setPeriod(period) ==
    /\ period # chartPeriod
    /\ chartPeriod' = period
    /\ dashboard' = Derive(allRegistrations, filters, period, dashClaimType)
    /\ UNCHANGED <<allRegistrations, filters, dashClaimType, exposureVars,
                   classifyVars, periodVars, cohortVars, overTimeVars,
                   serviceVars>>

\* handleClaimTypeChange: setClaimType(type); setFilters({}).
dashClaimTypeChange(type) ==
    /\ type # dashClaimType
    /\ dashClaimType' = type
    /\ filters' = NoFilterValues
    /\ dashboard' = Derive(allRegistrations, NoFilterValues, chartPeriod, type)
    /\ UNCHANGED <<allRegistrations, chartPeriod, exposureVars,
                   classifyVars, periodVars, cohortVars, overTimeVars,
                   serviceVars>>

InitDash == CohortIdle /\ OverTimeIdle /\ ToolsIdle

NextDash ==
    \/ \E i \in 1..Len(DashDomain) : dashRefresh(DashDomain[i])
    \/ \E selected \in FilterChoices : setFilters(selected)
    \/ \E period \in {"weekly", "monthly"} : setPeriod(period)
    \/ \E type \in ClaimTypes : dashClaimTypeChange(type)

SpecDash == InitDash /\ [][NextDash]_vars

\* ------------------------------------------------------- period keys
\* The dates on which the period functions are called: the days from each
\* of these up to MaxDayStep days later (the turn of 2022/2023, the turn of
\* 2024/2025, and the ninth and tenth week of 2024).
WindowStarts == <<Date(2022, 12, 28, 0), Date(2024, 12, 27, 0), Date(2024, 2, 28, 0)>>

PeriodDates ==
    {CivilFromDays(DaysFromCivil(WindowStarts[w].y, WindowStarts[w].m,
                                 WindowStarts[w].d) + step) :
        w \in 1..Len(WindowStarts), step \in 0..MaxDayStep}

\* The label of the period a date falls in.
LabelOf(date, period) ==
    getExtendedPeriodLabel(getExtendedPeriodKey(date, period), period)

setDateA(date) ==
    /\ date # dateA
    /\ dateA' = date
    /\ keyA' = PeriodKeyText(date, periodArg)
    /\ labelA' = LabelOf(date, periodArg)
    /\ UNCHANGED <<dateB, keyB, periodArg, exposureVars, classifyVars, dashVars,
                   cohortVars, overTimeVars,
                   serviceVars>>

setDateB(date) ==
    /\ date # dateB
    /\ dateB' = date
    /\ keyB' = PeriodKeyText(date, periodArg)
    /\ UNCHANGED <<dateA, keyA, labelA, periodArg, exposureVars, classifyVars,
                   dashVars, cohortVars, overTimeVars,
                   serviceVars>>

setGranularity(period) ==
    /\ period # periodArg
    /\ periodArg' = period
    /\ keyA' = PeriodKeyText(dateA, period)
    /\ keyB' = PeriodKeyText(dateB, period)
    /\ labelA' = LabelOf(dateA, period)
    /\ UNCHANGED <<dateA, dateB, exposureVars, classifyVars, dashVars,
                   cohortVars, overTimeVars,
                   serviceVars>>

InitPeriods ==
    /\ CohortIdle
    /\ OverTimeIdle
    /\ ExposureIdle
    /\ ClassifyIdle
    /\ DashIdle
    /\ ServiceIdle
    /\ dateA \in PeriodDates
    /\ dateB \in PeriodDates
    /\ periodArg = "weekly"
    /\ keyA = PeriodKeyText(dateA, periodArg)
    /\ keyB = PeriodKeyText(dateB, periodArg)
    /\ labelA = LabelOf(dateA, periodArg)

NextPeriods ==
    \/ \E date \in PeriodDates : setDateA(date)
    \/ \E date \in PeriodDates : setDateB(date)
    \/ \E period \in TimePeriods : setGranularity(period)

SpecPeriods == InitPeriods /\ [][NextPeriods]_vars

\* ------------------------------------------- many categories over time
\* The stored registrations: fifteen SKUs with one claim each, eight claimed
\* in January and seven in February 2024.
TopBase ==
    <<
       DashReg(Date(2024, 1, 10, 0), Date(2024, 1, 20, 0), "Dental Pod White",
               "K01", <<>>, "Leak", "", "Shop App"),
       DashReg(Date(2024, 1, 10, 0), Date(2024, 1, 20, 0), "Dental Pod White",
               "K02", <<>>, "Noise", "", "Shop App"),
       DashReg(Date(2024, 1, 10, 0), Date(2024, 1, 20, 0), "Dental Pod White",
               "K03", <<>>, "Leak", "", "Shop App"),
       DashReg(Date(2024, 1, 10, 0), Date(2024, 1, 20, 0), "Dental Pod White",
               "K04", <<>>, "Noise", "", "Shop App"),
       DashReg(Date(2024, 1, 10, 0), Date(2024, 1, 20, 0), "Dental Pod White",
               "K05", <<>>, "Leak", "", "Shop App"),
       DashReg(Date(2024, 1, 10, 0), Date(2024, 1, 20, 0), "Dental Pod White",
               "K06", <<>>, "Noise", "", "Shop App"),
       DashReg(Date(2024, 1, 10, 0), Date(2024, 1, 20, 0), "Dental Pod White",
               "K07", <<>>, "Leak", "", "Shop App"),
       DashReg(Date(2024, 1, 10, 0), Date(2024, 1, 20, 0), "Dental Pod White",
               "K08", <<>>, "Noise", "", "Shop App"),
       DashReg(Date(2024, 1, 10, 0), Date(2024, 2, 20, 0), "Dental Pod White",
               "K09", <<>>, "Leak", "", "Shop App"),
       DashReg(Date(2024, 1, 10, 0), Date(2024, 2, 20, 0), "Dental Pod White",
               "K10", <<>>, "Noise", "", "Shop App"),
       DashReg(Date(2024, 1, 10, 0), Date(2024, 2, 20, 0), "Dental Pod White",
               "K11", <<>>, "Leak", "", "Shop App"),
       DashReg(Date(2024, 1, 10, 0), Date(2024, 2, 20, 0), "Dental Pod White",
               "K12", <<>>, "Noise", "", "Shop App"),
       DashReg(Date(2024, 1, 10, 0), Date(2024, 2, 20, 0), "Dental Pod White",
               "K13", <<>>, "Leak", "", "Shop App"),
       DashReg(Date(2024, 1, 10, 0), Date(2024, 2, 20, 0), "Dental Pod White",
               "K14", <<>>, "Noise", "", "Shop App"),
       DashReg(Date(2024, 1, 10, 0), Date(2024, 2, 20, 0), "Dental Pod White",
               "K15", <<>>, "Leak", "", "Shop App") >>

\* The registrations fetched later: two further SKUs, a second claim of the
\* first SKU, and a SKU that is called "Other".
TopExtras ==
    << DashReg(Date(2024, 1, 10, 0), Date(2024, 1, 20, 0), "Dental Pod White",
               "K16", <<>>, "Leak", "", "Shop App"),
       DashReg(Date(2024, 1, 10, 0), Date(2024, 2, 20, 0), "Dental Pod White",
               "K17", <<>>, "Noise", "", "Shop App"),
       DashReg(Date(2024, 1, 10, 0), Date(2024, 2, 20, 0), "Dental Pod White",
               "K01", <<>>, "Leak", "", "Shop App"),
       DashReg(Date(2024, 1, 10, 0), Date(2024, 1, 20, 0), "Dental Pod White",
               "Other", <<>>, "Leak", "", "Shop App"),
       DashReg(Date(2024, 1, 10, 0), Date(2024, 2, 20, 0), "Dental Pod White",
               "K16", <<>>, "Noise", "", "Shop App") >>

\* The registrations prop changes: a fetched record is put in front.
overTimeRefreshMany(r) ==
    /\ Len(overTimeRegistrations) < Len(TopBase) + MaxTopExtras
    /\ overTimeRegistrations' = <<r>> \o overTimeRegistrations
    /\ overTime' = OverTimeMemo(overTimeRegistrations', timePeriod, groupBy,
                                overTimeClaimType)
    /\ UNCHANGED <<timePeriod, groupBy, overTimeClaimType, cohortVars, toolVars,
                   serviceVars>>

InitTop ==
    /\ CohortIdle
    /\ ToolsIdle
    /\ overTimeRegistrations = TopBase
    /\ timePeriod = "monthly"
    /\ groupBy = "sku"
    /\ overTimeClaimType = "warranty"
    /\ overTime = OverTimeMemo(TopBase, "monthly", "sku", "warranty")

NextTop ==
    \/ \E i \in 1..Len(TopExtras) : overTimeRefreshMany(TopExtras[i])
    \/ \E p \in {"monthly", "yearly"} : setTimePeriod(p)
    \/ \E g \in {"sku", "reason", "none"} : setGroupBy(g)

SpecTop == InitTop /\ [][NextTop]_vars

\* ------------------------------------------------ weeks at a year's turn
\* Claims in the last ISO week of 2020, the first two of 2021 and the first
\* of 2025, each ten days or less after the purchase.
WeekDomain ==
    << DashReg(Date(2020, 12, 20, 0), Date(2020, 12, 30, 0), "Dental Pod White",
               "DP-1", <<"S1">>, "Leak", "Lid", "Shop App"),
       DashReg(Date(2020, 12, 28, 0), Date(2021, 1, 5, 0), "Dental Pod White",
               "DP-2", <<"S2">>, "Noise", "", "Amazon"),
       DashReg(Date(2021, 1, 4, 0), Date(2021, 1, 12, 0), "Zima UV Case",
               "DP-1", <<>>, "Leak", "", "Shop App"),
       DashReg(Date(2024, 12, 27, 0), Date(2024, 12, 30, 0), "Zima UV Case",
               "DP-2", <<"S1">>, "Noise", "Lid", "Amazon") >>

InitWeeks == CohortIdle /\ OverTimeIdle /\ ToolsIdle

NextWeeks ==
    \/ \E i \in 1..Len(WeekDomain) : dashRefresh(WeekDomain[i])
    \/ \E selected \in FilterChoices : setFilters(selected)
    \/ \E period \in {"weekly", "monthly"} : setPeriod(period)
    \/ \E type \in ClaimTypes : dashClaimTypeChange(type)

SpecWeeks == InitWeeks /\ [][NextWeeks]_vars

\* ------------------------------------------------ select all and clear
Facets == {"productNames", "skus", "serialNumbers", "reasons", "subReasons", "purchaseChannels"}

\* DropdownMultiSelect.handleSelectAll: onChange([...options]); a facet
\* without options shows no dropdown.
handleSelectAll(facet) ==
    /\ Len(dashboard.filterValues[facet]) > 0
    /\ filters[facet] # dashboard.filterValues[facet]
    /\ filters' = [filters EXCEPT ![facet] = dashboard.filterValues[facet]]
    /\ dashboard' = Derive(allRegistrations, filters', chartPeriod, dashClaimType)
    /\ UNCHANGED <<allRegistrations, chartPeriod, dashClaimType, exposureVars,
                   classifyVars, periodVars, cohortVars, overTimeVars,
                   serviceVars>>

\* DropdownMultiSelect.handleClear: onChange([]).
handleClear(facet) ==
    /\ Len(dashboard.filterValues[facet]) > 0
    /\ filters[facet] # <<>>
    /\ filters' = [filters EXCEPT ![facet] = <<>>]
    /\ dashboard' = Derive(allRegistrations, filters', chartPeriod, dashClaimType)
    /\ UNCHANGED <<allRegistrations, chartPeriod, dashClaimType, exposureVars,
                   classifyVars, periodVars, cohortVars, overTimeVars,
                   serviceVars>>

InitSelect == CohortIdle /\ OverTimeIdle /\ ToolsIdle

NextSelect ==
    \/ \E i \in 1..Len(DashDomain) : dashRefresh(DashDomain[i])
    \/ \E facet \in Facets : handleSelectAll(facet)
    \/ \E facet \in Facets : handleClear(facet)

SpecSelect == InitSelect /\ [][NextSelect]_vars

\* ------------------------------------------------------------ the cache
\* The other parts at rest while the data services are exercised.
ChartsIdle ==
    /\ CohortIdle
    /\ OverTimeIdle
    /\ ExposureIdle
    /\ ClassifyIdle
    /\ PeriodIdle
    /\ DashIdle

FormSlugs == {"warranty-claim", "return-claim"}

\* The registration lists handed to the cache, as lists of ids.
CacheLists == {<<>>, <<1>>, <<2, 1>>}

ReduceCountsLargest(counts) ==
    IF DOMAIN counts = {} THEN 0
    ELSE CHOOSE n \in {counts[k] : k \in DOMAIN counts} :
             \A k \in DOMAIN counts : counts[k] <= n

\* Object.values(countsByForm).reduce((a, b) => a + b, 0)
ReduceCounts(counts) == SumOver(counts, DOMAIN counts)

\* obj[formSlug] = value
SetForm(obj, formSlug, value) ==
    [k \in (DOMAIN obj) \cup {formSlug} |-> IF k = formSlug THEN value ELSE obj[k]]

\* obj[formSlug] || fallback
FormOr(obj, formSlug, fallback) ==
    IF formSlug \in DOMAIN obj THEN obj[formSlug] ELSE fallback

setFormRegistrations(formSlug, regs) ==
    /\ registrationsByForm' = SetForm(registrationsByForm, formSlug, regs)
    /\ countsByForm' = SetForm(countsByForm, formSlug, Len(regs))
    /\ totalCount' = ReduceCounts(countsByForm')
    /\ UNCHANGED <<pageVars, syncVars, newestVars, modalVars, cohortVars,
                   overTimeVars, toolVars>>

\* The sync timestamps it also sets are not part of the state here.
setCacheCountsByForm(counts) ==
    /\ countsByForm' = counts
    /\ totalCount' = ReduceCounts(counts)
    /\ UNCHANGED <<registrationsByForm, pageVars, syncVars, newestVars, modalVars,
                   cohortVars, overTimeVars, toolVars>>

updateFormCount(formSlug, count) ==
    /\ countsByForm' = SetForm(countsByForm, formSlug, count)
    /\ totalCount' = ReduceCounts(countsByForm')
    /\ UNCHANGED <<registrationsByForm, pageVars, syncVars, newestVars, modalVars,
                   cohortVars, overTimeVars, toolVars>>

addToFormCount(formSlug, additionalCount) ==
    /\ FormOr(countsByForm, formSlug, 0) + additionalCount <= MaxCount
    /\ countsByForm' = SetForm(countsByForm, formSlug,
                               FormOr(countsByForm, formSlug, 0) + additionalCount)
    /\ totalCount' = ReduceCounts(countsByForm')
    /\ UNCHANGED <<registrationsByForm, pageVars, syncVars, newestVars, modalVars,
                   cohortVars, overTimeVars, toolVars>>

\* The new registrations go in front of the cached ones.
addRegistrationsToForm(formSlug, newRegs) ==
    /\ Len(newRegs) + Len(FormOr(registrationsByForm, formSlug, <<>>)) <= MaxCount
    /\ registrationsByForm' =
           SetForm(registrationsByForm, formSlug,
                   newRegs \o FormOr(registrationsByForm, formSlug, <<>>))
    /\ countsByForm' = SetForm(countsByForm, formSlug,
                               Len(registrationsByForm'[formSlug]))
    /\ totalCount' = ReduceCounts(countsByForm')
    /\ UNCHANGED <<pageVars, syncVars, newestVars, modalVars, cohortVars,
                   overTimeVars, toolVars>>

clearCache ==
    /\ registrationsByForm' = <<>>
    /\ countsByForm' = <<>>
    /\ totalCount' = 0
    /\ UNCHANGED <<pageVars, syncVars, newestVars, modalVars, cohortVars,
                   overTimeVars, toolVars>>

\* let cache = { registrationsByForm: {}, countsByForm: {}, totalCount: 0, ... }
InitCache ==
    /\ ChartsIdle
    /\ CacheIdle
    /\ PageIdle
    /\ SyncIdle
    /\ NewestIdle
    /\ ModalIdle

NextCache ==
    \/ \E formSlug \in FormSlugs, regs \in CacheLists :
           setFormRegistrations(formSlug, regs)
    \/ \E forms \in SUBSET FormSlugs :
           \E counts \in [forms -> 0..MaxCount] : setCacheCountsByForm(counts)
    \/ \E formSlug \in FormSlugs, count \in 0..MaxCount :
           updateFormCount(formSlug, count)
    \/ \E formSlug \in FormSlugs, additionalCount \in 1..MaxCount :
           addToFormCount(formSlug, additionalCount)
    \/ \E formSlug \in FormSlugs, newRegs \in CacheLists \ {<<>>} :
           addRegistrationsToForm(formSlug, newRegs)
    \/ clearCache

SpecCache == InitCache /\ [][NextCache]_vars

\* ------------------------------------------------- fetching one page
\* maxRetries: number = 5
DefaultMaxRetries == 5

\* The statuses the API answers with: OK, rate limited, server error.
Statuses == {200, 429, 500}

\* The two implementations of fetchRegistrationsPage.
Variants == {"api", "script"}

BackoffSecondsLinear(k) == 2 * k

\* Math.pow(2, attempt) * 1000 milliseconds, in seconds.
BackoffSeconds(k) == 2 ^ k

\* One pass of the loop body with the status of the response.  lib/api.ts
\* throws on a status that is neither OK nor 429; scripts/fetch-data.ts
\* throws inside its try block, and its catch block throws again only at
\* the last attempt.
fetchAttempt(status) ==
    /\ outcome = "running"
    /\ attempt <= retriesAllowed
    /\ delays' = IF attempt > 0 THEN Append(delays, BackoffSeconds(attempt))
                 ELSE delays
    /\ responses' = Append(responses, status)
    /\ IF status = 429
       THEN /\ attempt' = attempt + 1
            /\ outcome' = IF attempt < retriesAllowed THEN "running"
                          ELSE IF variant = "api" THEN "API rate limited (429)"
                          ELSE "Max retries exceeded"
       ELSE IF status # 200
       THEN IF variant = "api" \/ attempt = retriesAllowed
            THEN attempt' = attempt /\ outcome' = "API error"
            ELSE /\ attempt' = attempt + 1
                 /\ outcome' = "running"
       ELSE attempt' = attempt /\ outcome' = "returned"
    /\ UNCHANGED <<variant, retriesAllowed, cacheVars, syncVars, newestVars,
                   modalVars, cohortVars, overTimeVars, toolVars>>

\* Another call, of either implementation.
fetchRegistrationsPage(impl, maxRetries) ==
    /\ outcome # "running"
    /\ variant' = impl
    /\ retriesAllowed' = maxRetries
    /\ attempt' = 0
    /\ responses' = <<>>
    /\ delays' = <<>>
    /\ outcome' = "running"
    /\ UNCHANGED <<cacheVars, syncVars, newestVars, modalVars, cohortVars,
                   overTimeVars, toolVars>>

InitFetchPage ==
    /\ ChartsIdle
    /\ CacheIdle
    /\ SyncIdle
    /\ NewestIdle
    /\ ModalIdle
    /\ variant \in Variants
    /\ retriesAllowed = DefaultMaxRetries
    /\ attempt = 0
    /\ responses = <<>>
    /\ delays = <<>>
    /\ outcome = "running"

NextFetchPage ==
    \/ \E status \in Statuses : fetchAttempt(status)
    \/ \E impl \in Variants, maxRetries \in 0..DefaultMaxRetries :
           fetchRegistrationsPage(impl, maxRetries)

SpecFetchPage == InitFetchPage /\ [][NextFetchPage]_vars

\* --------------------------------------------------- historical sync
\* const limit = 100
PageSize == 100

\* if (page > 500) break
PageSafetyLimit == 500

RecordIds == 1..MaxIds

\* A page of the given length that repeats a pattern of ids.
Repeat(pattern, len) == [i \in 1..len |-> pattern[((i - 1) % Len(pattern)) + 1]]

\* The pages the API answers with: empty, short, or full (PageSize records).
HistoricalPages ==
    {<<>>} \cup {Repeat(pattern, len) :
                    pattern \in (RecordIds \X RecordIds), len \in {1, 2, PageSize}}

RECURSIVE AddUnseenForgetful(_, _, _, _)
AddUnseenForgetful(data, i, all, seen) ==
    IF i > Len(data) THEN <<all, seen>>
    ELSE IF data[i] \notin seen
    THEN AddUnseenForgetful(data, i + 1, Append(all, data[i]), seen)
    ELSE AddUnseenForgetful(data, i + 1, all, seen)

\* for (const reg of data) if (!seenIds.has(reg.id)) { seenIds.add(reg.id);
\* allRegistrations.push(reg) }
RECURSIVE AddUnseen(_, _, _, _)
AddUnseen(data, i, all, seen) ==
    IF i > Len(data) THEN <<all, seen>>
    ELSE IF data[i] \notin seen
    THEN AddUnseen(data, i + 1, Append(all, data[i]), seen \cup {data[i]})
    ELSE AddUnseen(data, i + 1, all, seen)

\* History: the ids of a page that no earlier page held, each once, in the
\* order of their first place in the page.
FirstPlace(data, id) == CHOOSE i \in DOMAIN data : data[i] = id /\ \A j \in 1..(i - 1) : data[j] # id

NewInOrder(data, known) ==
    LET new == {data[i] : i \in DOMAIN data} \ known
    IN  CHOOSE s \in [1..Cardinality(new) -> new] :
            \A i, j \in DOMAIN s :
                i < j => FirstPlace(data, s[i]) < FirstPlace(data, s[j])

\* One pass of the loop with a page that fetchRegistrationsPage returned.
historicalPage(data) ==
    /\ syncStatus = "running"
    /\ \E result \in {AddUnseen(data, 1, historical, seenIds)} :
           /\ historical' = result[1]
           /\ seenIds' = result[2]
    /\ firstSeen' = firstSeen \o NewInOrder(data, {firstSeen[i] : i \in DOMAIN firstSeen})
    /\ syncRequests' = syncRequests + 1
    /\ IF Len(data) # PageSize
       THEN syncPage' = syncPage /\ syncStatus' = "returned"
       ELSE /\ syncPage' = syncPage + 1
            /\ syncStatus' = IF syncPage + 1 > PageSafetyLimit THEN "returned"
                             ELSE "running"
    /\ UNCHANGED <<cacheVars, pageVars, newestVars, modalVars, cohortVars,
                   overTimeVars, toolVars>>

\* One pass in which fetchRegistrationsPage threw: catch (error) { break }
historicalFailure ==
    /\ syncStatus = "running"
    /\ syncRequests' = syncRequests + 1
    /\ syncStatus' = "returned after a failure"
    /\ UNCHANGED <<syncPage, historical, seenIds, firstSeen, cacheVars, pageVars,
                   newestVars, modalVars, cohortVars, overTimeVars, toolVars>>

InitHistorical ==
    /\ ChartsIdle
    /\ CacheIdle
    /\ PageIdle
    /\ NewestIdle
    /\ ModalIdle
    /\ syncPage = 1
    /\ historical = <<>>
    /\ seenIds = {}
    /\ firstSeen = <<>>
    /\ syncRequests = 0
    /\ syncStatus = "running"

NextHistorical ==
    \/ \E data \in HistoricalPages : historicalPage(data)
    \/ historicalFailure

SpecHistorical == InitHistorical /\ [][NextHistorical]_vars

\* ------------------------------------------------------------ refresh
\* const limit = 2
NewestPageSize == 2

\* if (consecutiveOldPages >= 5) break
ConsecutiveOldLimit == 5

\* if (page > 100) break
NewestPageLimit == 100

\* The registrations of the claim type when the dashboard has loaded.
StoredLists == {<<>>, <<1>>, <<2, 1>>}

\* The pages the API answers with: up to NewestPageSize records.
NewestPages == UNION {[1..len -> RecordIds] : len \in 0..NewestPageSize}

\* for (const reg of data) if (!existingIds.has(reg.id)) newRegistrations.push(reg)
RECURSIVE PushNew(_, _, _, _)
PushNew(data, i, new, existing) ==
    IF i > Len(data) THEN new
    ELSE PushNew(data, i + 1,
                 IF data[i] \notin existing THEN Append(new, data[i]) ELSE new,
                 existing)

\* handleRefresh up to its call of fetchNewestRegistrations, which returns
\* [] at once when there are no existing ids.
handleRefreshStart ==
    /\ refreshStatus = "idle"
    /\ existingIds' = {stored[i] : i \in DOMAIN stored}
    /\ newestPage' = 1
    /\ newRegistrations' = <<>>
    /\ consecutiveOldPages' = 0
    /\ refreshStatus' = IF existingIds' = {} THEN "idle" ELSE "fetching"
    /\ UNCHANGED <<stored, cacheVars, pageVars, syncVars, modalVars, cohortVars,
                   overTimeVars, toolVars>>

\* What handleRefresh does with the records fetchNewestRegistrations returns.
MergeNew(newRecords, old) ==
    IF Len(newRecords) > 0 THEN newRecords \o old ELSE old

\* One pass of the loop of fetchNewestRegistrations with the page fetched;
\* when the loop ends, handleRefresh merges the records returned.
newestPageFetched(data) ==
    /\ refreshStatus = "fetching"
    /\ \E new \in {PushNew(data, 1, newRegistrations, existingIds)} :
           /\ Len(new) <= MaxNew
           /\ newRegistrations' = new
           /\ consecutiveOldPages' =
                  IF Len(new) = Len(newRegistrations) THEN consecutiveOldPages + 1
                  ELSE 0
           /\ IF \/ (Len(new) = Len(newRegistrations)
                     /\ consecutiveOldPages + 1 >= ConsecutiveOldLimit)
                 \/ Len(data) # NewestPageSize
              THEN /\ newestPage' = newestPage
                   /\ refreshStatus' = "idle"
                   /\ stored' = MergeNew(new, stored)
              ELSE /\ newestPage' = newestPage + 1
                   /\ IF newestPage + 1 > NewestPageLimit
                      THEN refreshStatus' = "idle" /\ stored' = MergeNew(new, stored)
                      ELSE refreshStatus' = "fetching" /\ stored' = stored
    /\ UNCHANGED <<existingIds, cacheVars, pageVars, syncVars, modalVars,
                   cohortVars, overTimeVars, toolVars>>

\* fetchPage threw: catch (error) { break }
newestPageFailed ==
    /\ refreshStatus = "fetching"
    /\ refreshStatus' = "idle"
    /\ stored' = MergeNew(newRegistrations, stored)
    /\ UNCHANGED <<existingIds, newestPage, newRegistrations, consecutiveOldPages,
                   cacheVars, pageVars, syncVars, modalVars, cohortVars,
                   overTimeVars, toolVars>>

InitRefresh ==
    /\ ChartsIdle
    /\ CacheIdle
    /\ PageIdle
    /\ SyncIdle
    /\ ModalIdle
    /\ stored \in StoredLists
    /\ existingIds = {}
    /\ newestPage = 1
    /\ newRegistrations = <<>>
    /\ consecutiveOldPages = 0
    /\ refreshStatus = "idle"

NextRefresh ==
    \/ handleRefreshStart
    \/ \E data \in NewestPages : newestPageFetched(data)
    \/ newestPageFailed

SpecRefresh == InitRefresh /\ [][NextRefresh]_vars

\* ------------------------------------------- the purchase-volume modal
Sessions == 1..MaxSessions

VolumeCell(yearMonth, count) ==
    [yearMonth |-> yearMonth, product |-> "Dental Pod", purchaseCount |-> count]

\* The document in the store when the sessions load it.
StartVolumes ==
    { <<VolumeCell(202312, 7)>>,
      <<VolumeCell(202312, 7), VolumeCell(202401, 3)>> }

\* The cells of the table the users type in, and what they type.
ModalCells == {VolumeCell(202401, 0), VolumeCell(202402, 0)}

TypedCounts == {0, 5}

KeyOf(cell) == <<cell.yearMonth, cell.product>>

\* A session with the dashboard mounted, the volumes loaded and the modal closed.
Mounted(volumes) ==
    [props |-> volumes, isOpen |-> FALSE, volumes |-> <<>>, edits |-> <<>>]

\* f with f[key] = value
WithKey(f, key, value) ==
    [k \in (DOMAIN f) \cup {key} |-> IF k = key THEN value ELSE f[k]]

\* The dashboard is loaded again: setPurchaseVolumes(volumeData.volumes).
loadPurchaseVolumes(s) ==
    /\ ~sessions[s].isOpen
    /\ sessions[s].props # volumeStore
    /\ sessions' = [sessions EXCEPT ![s] = Mounted(volumeStore)]
    /\ UNCHANGED <<volumeStore, startVolumes, savedEdits, cacheVars, pageVars,
                   syncVars, newestVars, cohortVars, overTimeVars, toolVars>>

\* The modal opens: its volumes map is built from the purchaseVolumes prop.
openModal(s) ==
    /\ ~sessions[s].isOpen
    /\ sessions' = [sessions EXCEPT ![s] =
                       [props |-> sessions[s].props, isOpen |-> TRUE,
                        volumes |-> sessions[s].props, edits |-> <<>>]]
    /\ UNCHANGED <<volumeStore, startVolumes, savedEdits, cacheVars, pageVars,
                   syncVars, newestVars, cohortVars, overTimeVars, toolVars>>

\* handleChange(month, product, value)
handleChange(s, cell, count) ==
    /\ sessions[s].isOpen
    /\ sessions' = [sessions EXCEPT
                       ![s].volumes = SetCell(sessions[s].volumes, 1, cell, count),
                       ![s].edits = WithKey(sessions[s].edits, KeyOf(cell), count)]
    /\ sessions' # sessions
    /\ UNCHANGED <<volumeStore, startVolumes, savedEdits, cacheVars, pageVars,
                   syncVars, newestVars, cohortVars, overTimeVars, toolVars>>

\* handleSave: the cells with a positive count go to onSave, which is
\* handlePurchaseVolumesUpdate: savePurchaseVolumes writes the document
\* (setDoc) and setPurchaseVolumes sets the prop; the modal closes.
handleSave(s) ==
    /\ sessions[s].isOpen
    /\ \E volumeArray \in {PositiveCells(sessions[s].volumes, 1)} :
           /\ volumeStore' = volumeArray
           /\ sessions' = [sessions EXCEPT ![s] = Mounted(volumeArray)]
    /\ savedEdits' = [savedEdits EXCEPT ![s] =
                         [k \in (DOMAIN savedEdits[s]) \cup (DOMAIN sessions[s].edits) |->
                             IF k \in DOMAIN sessions[s].edits
                             THEN sessions[s].edits[k] ELSE savedEdits[s][k]]]
    /\ UNCHANGED <<startVolumes, cacheVars, pageVars, syncVars, newestVars,
                   cohortVars, overTimeVars, toolVars>>

\* handleCancel: the modal closes and its edits are dropped.
handleCancel(s) ==
    /\ sessions[s].isOpen
    /\ sessions' = [sessions EXCEPT ![s] = Mounted(sessions[s].props)]
    /\ UNCHANGED <<volumeStore, startVolumes, savedEdits, cacheVars, pageVars,
                   syncVars, newestVars, cohortVars, overTimeVars, toolVars>>

InitModal ==
    /\ ChartsIdle
    /\ CacheIdle
    /\ PageIdle
    /\ SyncIdle
    /\ NewestIdle
    /\ startVolumes \in StartVolumes
    /\ volumeStore = startVolumes
    /\ sessions = [s \in Sessions |-> Mounted(startVolumes)]
    /\ savedEdits = [s \in Sessions |-> <<>>]

NextModal ==
    \/ \E s \in Sessions : loadPurchaseVolumes(s)
    \/ \E s \in Sessions : openModal(s)
    \/ \E s \in Sessions, cell \in ModalCells, count \in TypedCounts :
           handleChange(s, cell, count)
    \/ \E s \in Sessions : handleSave(s)
    \/ \E s \in Sessions : handleCancel(s)

SpecModal == InitModal /\ [][NextModal]_vars

\* ---------------------------------------------------------- properties
\* a <= b for fractions with positive denominators.
FracLeq(a, b) == a.num * b.den <= b.num * a.den

FracLess(a, b) == a.num * b.den < b.num * a.den

\* Months counted from year 0, of a monthly key and back.
MonthIndex(key) == (key \div 100) * 12 + (key % 100) - 1

KeyOfIndex(i) == (i \div 12) * 100 + (i % 12) + 1

\* The month before the month of the current wall-clock time.
LastFullMonth == KeyOfIndex(Clock[clock].y * 12 + (Clock[clock].m - 1) - 1)

RemoveAt(s, n) == SubSeq(s, 1, n - 1) \o SubSeq(s, n + 1, Len(s))

\* The chart computed without the n-th record differs: the record counts.
Contributes(n) ==
    CohortMemo(RemoveAt(registrations, n), purchaseVolumes, productFilter,
               startMonth, endMonth, claimType, clock, tz) # cohortData

PurchaseMonth(reg) ==
    reg.shopifyOrderCreatedAt.y * 100 + reg.shopifyOrderCreatedAt.m

MonthsApart(reg) ==
    (reg.createdAt.y * 12 + reg.createdAt.m)
    - (reg.shopifyOrderCreatedAt.y * 12 + reg.shopifyOrderCreatedAt.m)

\* C1: within one cohort claimCount never decreases and survivalRate never
\* increases as monthsSincePurchase grows.
C1_CumulativeMonotonic ==
    \A i, j \in DOMAIN cohortData :
        (/\ cohortData[i].cohortMonth = cohortData[j].cohortMonth
         /\ cohortData[i].monthsSincePurchase <= cohortData[j].monthsSincePurchase)
        => /\ cohortData[i].claimCount <= cohortData[j].claimCount
           /\ FracLeq(cohortData[j].survivalRate, cohortData[i].survivalRate)

\* A cohort whose count grows and whose survival rate falls from one offset
\* to the next.
C1_Witness ==
    \E i, j \in DOMAIN cohortData :
        /\ cohortData[i].cohortMonth = cohortData[j].cohortMonth
        /\ cohortData[j].monthsSincePurchase = cohortData[i].monthsSincePurchase + 1
        /\ cohortData[i].claimCount < cohortData[j].claimCount
        /\ FracLess(cohortData[j].survivalRate, cohortData[i].survivalRate)

\* C2: the claimCount of the point (cohort C, offset k) is the number of
\* eligible records purchased in month C whose calendar-month difference
\* between purchase and claim is at most k.
C2_CumulativeCountExact ==
    \A i \in DOMAIN cohortData :
        cohortData[i].claimCount =
            Cardinality({n \in DOMAIN registrations :
                /\ IsValidRegistration(registrations[n], productFilter, claimType)
                /\ PurchaseMonth(registrations[n]) = cohortData[i].cohortMonth
                /\ MonthsApart(registrations[n]) <= cohortData[i].monthsSincePurchase})

\* A point that counts one record and leaves out a later claim of the same
\* cohort.
C2_Witness ==
    \E i \in DOMAIN cohortData :
        /\ cohortData[i].claimCount >= 1
        /\ \E n \in DOMAIN registrations :
               /\ IsValidRegistration(registrations[n], productFilter, claimType)
               /\ PurchaseMonth(registrations[n]) = cohortData[i].cohortMonth
               /\ MonthsApart(registrations[n]) > cohortData[i].monthsSincePurchase

\* C3: exactly one point for every cohort month of the range and every
\* offset up to maxMonths whose month is complete, whether or not a
\* qualifying claim was purchased in that month, and no pair twice.
C3_EveryCohortInRange ==
    /\ {<<cohortData[i].cohortMonth, cohortData[i].monthsSincePurchase>> :
            i \in DOMAIN cohortData}
       = {pair \in (startMonth..endMonth) \X (0..maxMonthsOf(claimType)) :
             /\ pair[1] % 100 \in 1..12
             /\ KeyOfIndex(MonthIndex(pair[1]) + pair[2]) <= LastFullMonth}
    /\ \A i, j \in DOMAIN cohortData :
           (/\ cohortData[i].cohortMonth = cohortData[j].cohortMonth
            /\ cohortData[i].monthsSincePurchase = cohortData[j].monthsSincePurchase)
           => i = j

\* C4: no point stands for a month later than the last fully elapsed
\* calendar month.
C4_NoIncompleteMonth ==
    \A i \in DOMAIN cohortData :
        KeyOfIndex(MonthIndex(cohortData[i].cohortMonth)
                   + cohortData[i].monthsSincePurchase) <= LastFullMonth

\* C5: claimRate is claimCount / purchaseVolume * 100, or 0 without
\* purchase volume, and claimRate + survivalRate is 100.
C5_RateComplement ==
    \A i \in DOMAIN cohortData :
        LET p == cohortData[i]
        IN  /\ IF p.purchaseVolume > 0
               THEN p.claimRate.num * p.purchaseVolume
                    = p.claimCount * 100 * p.claimRate.den
               ELSE p.claimRate.num = 0
            /\ p.claimRate.num * p.survivalRate.den
               + p.survivalRate.num * p.claimRate.den
               = 100 * p.claimRate.den * p.survivalRate.den

\* A point with claims over a purchase volume next to a cohort without
\* purchase volume.
C5_Witness ==
    /\ \E i \in DOMAIN cohortData :
           cohortData[i].purchaseVolume > 0 /\ cohortData[i].claimCount > 0
    /\ \E i \in DOMAIN cohortData :
           cohortData[i].purchaseVolume = 0 /\ cohortData[i].claimCount > 0

\* C6: a record counts only if it has both timestamps, exposure days within
\* the limits of the claim type and, for warranty, an allowed purchase
\* channel; for return claims the channel never changes the result.
C6_ChannelEligibility ==
    /\ \A n \in DOMAIN registrations :
           Contributes(n) =>
               LET reg == registrations[n]
               IN  /\ reg.shopifyOrderCreatedAt # Absent
                   /\ reg.createdAt # Absent
                   /\ calculateExposureDays(reg.shopifyOrderCreatedAt, reg.createdAt)
                          \in 0..(IF claimType = "warranty" THEN 365 ELSE 31)
                   /\ claimType = "warranty" =>
                          reg.channel \in {"Shop App", "Zima Dental Website",
                                           "Zima Dental Website or Shop App"}
    /\ claimType = "return" =>
           \A n \in DOMAIN registrations, ch \in PurchaseChannels :
               CohortMemo([registrations EXCEPT ![n].channel = ch], purchaseVolumes,
                          productFilter, startMonth, endMonth, claimType, clock, tz)
               = cohortData

\* A return claim bought outside the allowed channels that counts.
C6_Witness ==
    /\ claimType = "return"
    /\ \E n \in DOMAIN registrations :
           /\ registrations[n].channel \notin {"Shop App", "Zima Dental Website",
                                                "Zima Dental Website or Shop App"}
           /\ Contributes(n)

\* C7: a record counts only if its product type is the product filter or,
\* under "All Products", one of the four tracked types.
C7_ProductEligibility ==
    \A n \in DOMAIN registrations :
        Contributes(n) =>
            LET productType == extractProductType(registrations[n].productName)
            IN  IF productFilter = "All Products"
                THEN productType \in {"Dental Pod", "Dental Pod Go", "Dental Pod Pro",
                                      "Zima Go/Zima UV Case/Zima Case Air"}
                ELSE productType = productFilter

\* An "Other" record that passes every other test and is left out under
\* "All Products".
C7_Witness ==
    /\ productFilter = "All Products"
    /\ \E n \in DOMAIN registrations :
           LET reg == registrations[n]
           IN  /\ extractProductType(reg.productName) = "Other"
               /\ HasBothTimestamps(reg)
               /\ PassesExposure(reg, claimType)
               /\ PassesChannel(reg, claimType)
               /\ PurchaseMonth(reg) >= startMonth
               /\ PurchaseMonth(reg) <= endMonth
               /\ PurchaseMonth(reg) <= LastFullMonth
               /\ ~Contributes(n)

\* The stored purchase counts of a month whose product is the filter, or one
\* of the four tracked products under "All Products".
RECURSIVE MatchingVolumeLiteral(_, _)
MatchingVolumeLiteral(i, cohortMonth) ==
    IF i > Len(purchaseVolumes) THEN 0
    ELSE (IF /\ purchaseVolumes[i].yearMonth = cohortMonth
             /\ \/ purchaseVolumes[i].product = productFilter
                \/ /\ productFilter = "All Products"
                   /\ purchaseVolumes[i].product \in
                          {"Dental Pod", "Dental Pod Go", "Dental Pod Pro",
                           "Zima Go/Zima UV Case/Zima Case Air"}
          THEN purchaseVolumes[i].purchaseCount ELSE 0)
         + MatchingVolumeLiteral(i + 1, cohortMonth)

\* The same, with the entries stored under the product "All Products" left
\* out.
RECURSIVE MatchingVolume(_, _)
MatchingVolume(i, cohortMonth) ==
    IF i > Len(purchaseVolumes) THEN 0
    ELSE (IF /\ purchaseVolumes[i].yearMonth = cohortMonth
             /\ IF productFilter = "All Products"
                THEN purchaseVolumes[i].product \in
                         {"Dental Pod", "Dental Pod Go", "Dental Pod Pro",
                          "Zima Go/Zima UV Case/Zima Case Air"}
                ELSE purchaseVolumes[i].product = productFilter
          THEN purchaseVolumes[i].purchaseCount ELSE 0)
         + MatchingVolume(i + 1, cohortMonth)

C9_SameArgumentsSameResult ==
    [][(/\ registrations' = registrations
        /\ purchaseVolumes' = purchaseVolumes
        /\ productFilter' = productFilter
        /\ startMonth' = startMonth
        /\ endMonth' = endMonth
        /\ claimType' = claimType)
       => cohortData' = cohortData]_vars

RECURSIVE SumTotals(_, _)
SumTotals(data, i) ==
    IF i > Len(data) THEN 0 ELSE data[i].total + SumTotals(data, i + 1)

\* C10: the totals of calculateClaimsOverTime add up to the number of
\* records with both timestamps and exposure days valid for the claim type.
C10_CountsValidExposureOnly ==
    SumTotals(overTime.data, 1) =
        Cardinality({n \in DOMAIN overTimeRegistrations :
            LET reg == overTimeRegistrations[n]
            IN  /\ reg.createdAt # Absent
                /\ reg.shopifyOrderCreatedAt # Absent
                /\ isValidExposure(
                       calculateExposureDays(reg.shopifyOrderCreatedAt, reg.createdAt),
                       overTimeClaimType)})

\* C11: isValidExposure(days, claimType) is true exactly when
\* 0 <= days <= 365 for warranty and exactly when 0 <= days <= 31 for return.
C11_ExposureBounds ==
    validResult = IF typeArg = "warranty"
                  THEN daysArg >= 0 /\ daysArg <= 365
                  ELSE daysArg >= 0 /\ daysArg <= 31

\* The last valid day count of a return claim.
C11_Witness ==
    typeArg = "return" /\ daysArg = 31 /\ validResult

\* C12: calculateExposureDays returns the time from purchase to claim
\* rounded up to whole days, and 0 when the claim is not later than the
\* purchase; it is never negative. (One day is two units of getTime.)
C12_ExposureRoundedUp ==
    LET diffTime == getTime(claimArg) - getTime(purchaseArg)
    IN  /\ daysResult >= 0
        /\ IF diffTime <= 0
           THEN daysResult = 0
           ELSE 2 * (daysResult - 1) < diffTime /\ diffTime <= 2 * daysResult

\* A claim a whole number of days and a half after the purchase.
C12_Witness ==
    /\ getTime(claimArg) - getTime(purchaseArg) > 0
    /\ (getTime(claimArg) - getTime(purchaseArg)) % 2 = 1
    /\ daysResult > 1

\* The rules of extractProductType read as plain containment, first match
\* first.
TypeByContainment(name) ==
    IF name = "" THEN "Other"
    ELSE IF Contains(Chars(name), PatDentalPodGo) THEN "Dental Pod Go"
    ELSE IF Contains(Chars(name), PatDentalPodPro) THEN "Dental Pod Pro"
    ELSE IF Contains(Chars(name), PatDentalPod) THEN "Dental Pod"
    ELSE IF \/ Contains(Chars(name), PatZima \o PatGo)
            \/ Contains(Chars(name), PatZima \o PatUVCase)
            \/ Contains(Chars(name), PatZima \o PatCaseAir)
         THEN "Zima Go/Zima UV Case/Zima Case Air"
    ELSE "Other"

\* C13: extractProductType is total and maps a name containing
\* "Dental Pod Go" to "Dental Pod Go", else one containing "Dental Pod Pro"
\* to "Dental Pod Pro", else one containing "Dental Pod" to "Dental Pod",
\* else one containing "Zima Go", "Zima UV Case" or "Zima Case Air" to the
\* Zima type, and everything else, a missing name included, to "Other",
\* whatever the case of the letters.
C13_RulePrecedence ==
    /\ Len(typesResult) = Len(namesArg)
    /\ \A i \in DOMAIN namesArg : typesResult[i] = TypeByContainment(namesArg[i])

\* The record satisfies every facet of the selection that is not empty.
Satisfies(reg) ==
    /\ filters.productNames = <<>> \/ reg.productName \in Elements(filters.productNames)
    /\ filters.skus = <<>> \/ reg.productSku \in Elements(filters.skus)
    /\ filters.serialNumbers = <<>>
       \/ Elements(reg.serialNumbers) \cap Elements(filters.serialNumbers) # {}
    /\ filters.reasons = <<>> \/ reg.reason \in Elements(filters.reasons)
    /\ filters.subReasons = <<>> \/ reg.subReason \in Elements(filters.subReasons)
    /\ filters.purchaseChannels = <<>>
       \/ reg.channel \in Elements(filters.purchaseChannels)

\* C14: applyFilters returns, in input order, exactly the records that
\* satisfy every non-empty facet; an empty facet imposes no constraint and
\* the facets combine with AND.
C14_FilterSubsequence ==
    dashboard.filtered = SelectSeq(allRegistrations, Satisfies)

\* A record that is selected by product name but not by SKU, and left out.
C14_Witness ==
    /\ filters.productNames # <<>>
    /\ filters.skus # <<>>
    /\ \E i \in DOMAIN allRegistrations :
           /\ allRegistrations[i].productName \in Elements(filters.productNames)
           /\ allRegistrations[i].productSku \notin Elements(filters.skus)
           /\ allRegistrations[i] \notin Elements(dashboard.filtered)

\* The list is strictly ascending and holds exactly the values of S that
\* are not the empty string.
CleanList(list, S) ==
    /\ \A j \in 1..(Len(list) - 1) : StringLess(list[j], list[j + 1])
    /\ Elements(list) = S \ {""}

\* C15: each of the six lists of extractFilterValues is sorted ascending
\* without duplicates and holds exactly the non-empty values of its facet
\* in the input; none contains an empty string.
C15_FilterValuesClean ==
    /\ CleanList(dashboard.filterValues.productNames,
                 {allRegistrations[i].productName : i \in DOMAIN allRegistrations})
    /\ CleanList(dashboard.filterValues.skus,
                 {allRegistrations[i].productSku : i \in DOMAIN allRegistrations})
    /\ CleanList(dashboard.filterValues.serialNumbers,
                 UNION {Elements(allRegistrations[i].serialNumbers) :
                            i \in DOMAIN allRegistrations})
    /\ CleanList(dashboard.filterValues.reasons,
                 {allRegistrations[i].reason : i \in DOMAIN allRegistrations})
    /\ CleanList(dashboard.filterValues.subReasons,
                 {allRegistrations[i].subReason : i \in DOMAIN allRegistrations})
    /\ CleanList(dashboard.filterValues.purchaseChannels,
                 {allRegistrations[i].channel : i \in DOMAIN allRegistrations})

\* The records of the chart's input with both timestamps and valid exposure
\* days whose claim date has the period key.
InBucket(key) ==
    {i \in DOMAIN dashboard.filtered :
        LET reg == dashboard.filtered[i]
        IN  /\ reg.createdAt # Absent
            /\ reg.shopifyOrderCreatedAt # Absent
            /\ isValidExposure(
                   calculateExposureDays(reg.shopifyOrderCreatedAt, reg.createdAt),
                   dashClaimType)
            /\ getPeriodKeyBy(reg.createdAt, chartPeriod) = key}

RECURSIVE BucketExposure(_, _)
BucketExposure(i, key) ==
    IF i > Len(dashboard.filtered) THEN 0
    ELSE (IF i \in InBucket(key)
          THEN calculateExposureDays(dashboard.filtered[i].shopifyOrderCreatedAt,
                                     dashboard.filtered[i].createdAt)
          ELSE 0)
         + BucketExposure(i + 1, key)

\* C16: calculateClaimsPercentageByPeriod returns one point per period key
\* of the valid-exposure records, in strictly ascending key order, with the
\* number of those records, the sum of their exposure days, and
\* claimCount / totalExposureDays * 100, or 0 without exposure days.
C16_PercentageByPeriod ==
    LET chart == dashboard.chartData
    IN  /\ \A j \in 1..(Len(chart) - 1) : chart[j].period < chart[j + 1].period
        /\ {chart[j].period : j \in DOMAIN chart}
           = {k \in {getPeriodKeyBy(dashboard.filtered[i].createdAt, chartPeriod) :
                        i \in {i \in DOMAIN dashboard.filtered :
                                  dashboard.filtered[i].createdAt # Absent}} :
                 InBucket(k) # {}}
        /\ \A j \in DOMAIN chart :
               /\ chart[j].claimCount = Cardinality(InBucket(chart[j].period))
               /\ chart[j].totalExposureDays = BucketExposure(1, chart[j].period)
               /\ IF chart[j].totalExposureDays > 0
                  THEN chart[j].claimsPercentage.num * chart[j].totalExposureDays
                       = chart[j].claimCount * 100 * chart[j].claimsPercentage.den
                  ELSE chart[j].claimsPercentage.num = 0

\* A bucket of two records with exposure days.
C16_Witness ==
    \E j \in DOMAIN dashboard.chartData :
        /\ dashboard.chartData[j].claimCount = 2
        /\ dashboard.chartData[j].totalExposureDays > 0

\* C20: a record whose purchase timestamp is later than its claim timestamp
\* is excluded by filterByValidExposure and counted in excludedCount, like
\* a record without purchase date and a record claimed after the exposure
\* window.
C20_FuturePurchaseExcluded ==
    /\ \A i \in DOMAIN allRegistrations :
           (/\ allRegistrations[i].shopifyOrderCreatedAt # Absent
            /\ allRegistrations[i].createdAt # Absent
            /\ getTime(allRegistrations[i].shopifyOrderCreatedAt)
               > getTime(allRegistrations[i].createdAt))
           => allRegistrations[i] \notin Elements(dashboard.registrations)
    /\ dashboard.excludedCount =
           Cardinality({i \in DOMAIN allRegistrations :
               \/ allRegistrations[i].shopifyOrderCreatedAt = Absent
               \/ allRegistrations[i].createdAt = Absent
               \/ getTime(allRegistrations[i].shopifyOrderCreatedAt)
                  > getTime(allRegistrations[i].createdAt)
               \/ ~isValidExposure(
                      calculateExposureDays(allRegistrations[i].shopifyOrderCreatedAt,
                                            allRegistrations[i].createdAt),
                      dashClaimType)})

\* The day number of a date.
DayOf(date) == DaysFromCivil(date.y, date.m, date.d)

\* The Thursday of the Monday-to-Sunday week of a date.
ThursdayOf(date) == DayOf(date) + 3 - ((getDay(DayOf(date)) + 6) % 7)

\* The ISO week key of a date: the year of that Thursday and one more than
\* the number of whole weeks from the 1st of January of that year to it.
IsoWeekKeyText(date) ==
    NumberText(CivilFromDays(ThursdayOf(date)).y) \o <<"-", "W">>
    \o <<DigitChars[(((ThursdayOf(date)
                       - DaysFromCivil(CivilFromDays(ThursdayOf(date)).y, 1, 1)) \div 7 + 1)
                     \div 10) + 1],
         DigitChars[(((ThursdayOf(date)
                       - DaysFromCivil(CivilFromDays(ThursdayOf(date)).y, 1, 1)) \div 7 + 1)
                     % 10) + 1]>>

\* C18: for every granularity the key of an earlier date is less than or
\* equal to the key of a later date in plain string order, and weekly keys
\* are the ISO week and ISO week-year of the date's Thursday.
C18_KeysOrderPreserving ==
    /\ getTime(dateA) < getTime(dateB) => ~LessFrom(keyB, keyA, 1)
    /\ periodArg = "weekly" => keyA = IsoWeekKeyText(dateA)

\* Two dates of one calendar year in weeks of different week-years.
C18_Witness ==
    /\ periodArg = "weekly"
    /\ getTime(dateA) < getTime(dateB)
    /\ dateA.y = dateB.y
    /\ getWeekNumber(dateA).year # getWeekNumber(dateB).year
    /\ LessFrom(keyA, keyB, 1)

\* The day number of the date a weekly label shows.
LabelDay == DaysFromCivil(labelA[3], CHOOSE m \in 1..12 : MonthNames[m] = labelA[1], labelA[2])

\* C19: the weekly label of a date's key is the Monday of the date's ISO
\* week: the label date is a Monday and label date <= date <= label date + 6.
C19_WeeklyLabelIsMonday ==
    periodArg = "weekly" =>
        /\ getDay(LabelDay) = 1
        /\ LabelDay <= DayOf(dateA)
        /\ DayOf(dateA) <= LabelDay + 6

\* The records of the claims-over-time chart that have a claim date.
Dated == {i \in DOMAIN overTimeRegistrations : overTimeRegistrations[i].createdAt # Absent}

Categories == {getGroupValue(overTimeRegistrations[i], groupBy) : i \in Dated}

\* The claims of a category in a period, and over all periods.
CountIn(category, periodKey) ==
    Cardinality({i \in Dated :
        /\ getGroupValue(overTimeRegistrations[i], groupBy) = category
        /\ getExtendedPeriodKey(overTimeRegistrations[i].createdAt, timePeriod)
           = periodKey})

TotalOf(category) ==
    Cardinality({i \in Dated :
        getGroupValue(overTimeRegistrations[i], groupBy) = category})

\* The category has a series of its own: every point shows its count.
KeepsSeries(category) ==
    \A j \in DOMAIN overTime.data :
        /\ category \in DOMAIN overTime.data[j].series
        /\ overTime.data[j].series[category]
           = CountIn(category, overTime.data[j].period)

Merged == {c \in Categories : ~KeepsSeries(c)}

OtherValue(point) ==
    IF "Other" \in DOMAIN point.series THEN point.series["Other"] ELSE 0

\* C17: with a groupBy other than "none" and more than 15 categories,
\* exactly 15 categories keep their own series, none of them with a lower
\* overall count than a merged category; the others are summed into one
\* "Other" value per period, to which the values of otherBreakdown add up.
C17_TopFifteen ==
    (groupBy # "none" /\ Cardinality(Categories) > 15) =>
        /\ Cardinality(Categories \ Merged) = 15
        /\ \A k \in Categories \ Merged, m \in Merged : TotalOf(k) >= TotalOf(m)
        /\ \A j \in DOMAIN overTime.data :
               /\ OtherValue(overTime.data[j])
                  = SumOver([m \in Merged |-> CountIn(m, overTime.data[j].period)],
                            Merged)
               /\ SumOver(overTime.data[j].otherBreakdown,
                          DOMAIN overTime.data[j].otherBreakdown)
                  = OtherValue(overTime.data[j])

\* The value a point shows for a category, 0 when the point has no such key.
PointCount(point, category) ==
    IF category \in DOMAIN point.series THEN point.series[category] ELSE 0

\* The categories that the result does not list.
Unlisted == Categories \ {overTime.categories[i] : i \in DOMAIN overTime.categories}

\* C26: in every period point of calculateClaimsOverTime, total is the sum
\* of the point's counts over the returned categories list, the list names
\* no category twice, and the point has an "Other" value exactly when the
\* merged categories have a positive count in the point's period.
C26_TotalsAndOther ==
    /\ \A i, j \in DOMAIN overTime.categories :
           overTime.categories[i] = overTime.categories[j] => i = j
    /\ \A j \in DOMAIN overTime.data :
           /\ overTime.data[j].total
              = SumOver([i \in DOMAIN overTime.categories |->
                            PointCount(overTime.data[j], overTime.categories[i])],
                        DOMAIN overTime.categories)
           /\ ("Other" \in DOMAIN overTime.data[j].series)
              <=> (SumOver([m \in Unlisted |-> CountIn(m, overTime.data[j].period)],
                           Unlisted) > 0)

\* 0 <= rate <= 100 for a fraction with a positive denominator.
IsPercentage(rate) == rate.num >= 0 /\ rate.num <= 100 * rate.den

\* C27: every cohort point with a positive purchase volume has a survival
\* rate and a claim rate between 0 and 100.
C27_RatesArePercentages ==
    \A i \in DOMAIN cohortData :
        cohortData[i].purchaseVolume > 0 =>
            /\ IsPercentage(cohortData[i].survivalRate)
            /\ IsPercentage(cohortData[i].claimRate)

\* C28: at the last offset of a cohort (12 for warranty, 1 for return) the
\* cumulative claimCount is the number of eligible records purchased in the
\* cohort's month: no eligible claim is lost.
C28_NoEligibleClaimLost ==
    \A i \in DOMAIN cohortData :
        cohortData[i].monthsSincePurchase = maxMonthsOf(claimType) =>
            cohortData[i].claimCount =
                Cardinality({n \in DOMAIN registrations :
                    /\ IsValidRegistration(registrations[n], productFilter, claimType)
                    /\ PurchaseMonth(registrations[n]) = cohortData[i].cohortMonth})

\* C29: in one weekly result of calculateClaimsPercentageByPeriod, points
\* with different period keys carry different labels, also for weeks on
\* either side of a year boundary.
C29_DistinctWeekLabels ==
    chartPeriod = "weekly" =>
        \A i, j \in DOMAIN dashboard.chartData :
            dashboard.chartData[i].period # dashboard.chartData[j].period
            => dashboard.chartData[i].periodLabel # dashboard.chartData[j].periodLabel

\* C30: selecting every available value of one facet, with no other facet
\* selected, is the same as not filtering: applyFilters returns the record
\* list unchanged.
C30_SelectAllIsNoFilter ==
    \A facet \in Facets :
        filters = [NoFilterValues EXCEPT ![facet] = dashboard.filterValues[facet]]
        => dashboard.filtered = allRegistrations

\* The count of a form, 0 for a form that has none.
CountOfForm(formSlug) ==
    IF formSlug \in DOMAIN countsByForm THEN countsByForm[formSlug] ELSE 0

\* C25: in the cache, after any sequence of setFormRegistrations,
\* updateFormCount, addToFormCount, addRegistrationsToForm,
\* setCacheCountsByForm and clearCache, totalCount is the sum of the values
\* of countsByForm.
C25_TotalIsSumOfCounts ==
    totalCount = CountOfForm("warranty-claim") + CountOfForm("return-claim")

\* Both forms counted, one of them with a count that is not the length of
\* its cached list.
C25_Witness ==
    /\ CountOfForm("warranty-claim") > 0
    /\ CountOfForm("return-claim") > 0
    /\ "return-claim" \in DOMAIN registrationsByForm
    /\ Len(registrationsByForm["return-claim"]) # CountOfForm("return-claim")
    /\ totalCount > 2

\* C22 as stated: fetchRegistrationsPage makes at most maxRetries + 1
\* requests and has ended when it made that many; it returns the first OK
\* response, makes another request only after a 429, waits 2^k seconds
\* before the k-th retry, throws at once on any other status that is not
\* OK, and throws a rate-limit error when the last allowed attempt is a 429.
C22_RetryOnlyOnRateLimit ==
    outcome # "idle" =>
        /\ Len(responses) <= retriesAllowed + 1
        /\ Len(responses) = retriesAllowed + 1 => outcome # "running"
        /\ \A k \in 1..(Len(responses) - 1) : responses[k] = 429
        /\ delays = [k \in 1..(Len(responses) - 1) |-> 2 ^ k]
        /\ (responses # <<>> /\ responses[Len(responses)] = 200)
           <=> outcome = "returned"
        /\ (responses # <<>> /\ responses[Len(responses)] = 500)
           => outcome = "API error"
        /\ (Len(responses) = retriesAllowed + 1 /\ responses[Len(responses)] = 429)
           => outcome = "API rate limited (429)"

\* C22, amended: both implementations make at most maxRetries + 1 requests,
\* wait 2^k seconds before the k-th retry and return the first OK response.
\* lib/api.ts retries only after a 429, throws at once on another status
\* and throws the rate-limit error after a last 429; scripts/fetch-data.ts
\* retries after every response that is not OK, throws the API error only
\* at the last attempt and "Max retries exceeded" after a last 429.
C22_RetryPolicy ==
    outcome # "idle" =>
        LET n    == Len(responses)
            last == responses[n]
        IN  /\ n <= retriesAllowed + 1
            /\ n = retriesAllowed + 1 => outcome # "running"
            /\ delays = [k \in 1..(n - 1) |-> 2 ^ k]
            /\ (n > 0 /\ last = 200) <=> outcome = "returned"
            /\ \A k \in 1..(n - 1) :
                   IF variant = "api" THEN responses[k] = 429
                   ELSE responses[k] # 200
            /\ (n > 0 /\ last = 500) =>
                   IF variant = "api" \/ n = retriesAllowed + 1
                   THEN outcome = "API error"
                   ELSE outcome = "running"
            /\ (n = retriesAllowed + 1 /\ last = 429) =>
                   outcome = IF variant = "api" THEN "API rate limited (429)"
                             ELSE "Max retries exceeded"

\* The script's implementation has retried after a server error and after
\* a 429, and returned the third response.
C22_Witness ==
    /\ variant = "script"
    /\ responses = <<500, 429, 200>>
    /\ delays = <<2, 4>>
    /\ outcome = "returned"

\* C23: fetchHistoricalRegistrations requests at most 500 pages and has
\* ended when it requested that many; its list holds no id twice and holds,
\* in first-seen order, every id of a successfully fetched page; after a
\* failed page it has returned the records collected so far.
C23_HistoricalDeduplicated ==
    /\ syncRequests <= PageSafetyLimit
    /\ syncRequests = PageSafetyLimit => syncStatus # "running"
    /\ \A i, j \in DOMAIN historical : historical[i] = historical[j] => i = j
    /\ historical = firstSeen

\* The loop ended on a failed page after pages that repeated an id, with
\* two records collected.
C23_Witness ==
    /\ syncStatus = "returned after a failure"
    /\ syncRequests > 3
    /\ Len(historical) = 2

\* C24: the registration list of a claim type, free of duplicate ids when
\* the dashboard has loaded, holds no id twice after handleRefresh, whatever
\* pages the API answers with, and no record that fetchNewestRegistrations
\* returns has an id in existingIds.
C24_RefreshAvoidsDuplicates ==
    /\ \A i \in DOMAIN newRegistrations : newRegistrations[i] \notin existingIds
    /\ refreshStatus = "idle" =>
           \A i, j \in DOMAIN stored : stored[i] = stored[j] => i = j

\* The count stored for a key, 0 when the document has no entry for it.
StoredCount(key) ==
    IF \E i \in DOMAIN volumeStore : KeyOf(volumeStore[i]) = key
    THEN volumeStore[CHOOSE i \in DOMAIN volumeStore : KeyOf(volumeStore[i]) = key].purchaseCount
    ELSE 0

EditedKeys == UNION {DOMAIN savedEdits[s] : s \in Sessions}

\* C21: after any loads and saves through the purchase-volume modal, every
\* entry stored at the start that no session edited is still stored, and
\* what a session saved for a cell that no other session edited is stored.
C21_SavesRetainStoredData ==
    /\ \A i \in DOMAIN startVolumes :
           KeyOf(startVolumes[i]) \notin EditedKeys
           => StoredCount(KeyOf(startVolumes[i])) = startVolumes[i].purchaseCount
    /\ \A s \in Sessions : \A key \in DOMAIN savedEdits[s] :
           (\A other \in Sessions \ {s} : key \notin DOMAIN savedEdits[other])
           => StoredCount(key) = savedEdits[s][key]

====
